---- MODULE Spec2Model ----
(***************************************************************************)
(* A model of pkg/cache: the in-process store (memory.go), the multi-level *)
(* orchestrator (multi.go) and the error taxonomy (errors.go).             *)
(*                                                                         *)
(* Time is a discrete clock `now`; time.Now() reads it.  A stored value is *)
(* the JSON document json.Marshal produced; a caller's value is a Go value *)
(* of some type.  Tier indices follow the source: index 0 is the nearest   *)
(* tier.                                                                   *)
(***************************************************************************)
EXTENDS Integers, FiniteSets, Sequences, TLC

VARIABLES
    now,      \* the clock read by time.Now()
    data,     \* data[t][k]: memoryCache.data of tier t (NoItem: no map entry)
    closed,   \* closed[t]: tier t's stop channel has been closed
    wr,       \* history: wr[t][k] is the last write the store of tier t did to k
    last,     \* the call that the last step completed, with what it returned
    mu,       \* memoryCache.mu of the store the goroutines share
    pc,       \* pc[p]: where goroutine p stands in its handler
    loc,      \* loc[p]: the call of goroutine p and its local variables
    done,     \* the calls that have returned, in order of return
    held,     \* held[p]: the *cacheItem goroutine p holds in its handler
    lin,      \* history: lin[p] is what the read goroutine p is in would have
              \* returned had it run at once, at the instants since its call
    task,     \* task[t][i]: where the i-th goroutine running cleanup() of tier t stands
    cleaner   \* cleaner[t]: memoryCache.cleaner of tier t, the ticker and its channel

vars == <<now, data, closed, wr, last, mu, pc, loc, done, held, lin, task, cleaner>>

(***************************************************************************)
(* Bounds of the model.                                                    *)
(***************************************************************************)
NumKeys == 2
NumTiers == 2
MaxTicks == 2
MaxTTL == 2
MaxNegTTL == 1
MaxCount == 2
MaxCalls == 3
MaxTasks == 2
MaxWrap == 2
NumProcs == 2

Keys == 1..NumKeys
Tiers == 0..(NumTiers - 1)
LastTier == NumTiers - 1
Procs == 1..NumProcs
Tasks == 1..MaxTasks

\* time.Time{}: the zero time, for which IsZero() holds
ZeroTime == 0
\* the clock starts late enough for now + ttl never to be the zero time
StartTime == MaxNegTTL + 1
MaxTime == StartTime + MaxTicks
TTLs == (0 - MaxNegTTL)..MaxTTL
Counts == (0 - MaxCount)..MaxCount

(***************************************************************************)
(* Values.  A JSON document is a number, a string or an object with the    *)
(* fields A and (when hasB) B.  A Go value is a type with the document     *)
(* json.Marshal gives for it; a channel has none.                          *)
(***************************************************************************)
NoJson == [kind |-> "none", a |-> 0, b |-> 0, hasB |-> FALSE]
Num(n) == [kind |-> "num", a |-> n, b |-> 0, hasB |-> FALSE]
Str(s) == [kind |-> "str", a |-> s, b |-> 0, hasB |-> FALSE]
Obj(x, y) == [kind |-> "obj", a |-> x, b |-> y, hasB |-> TRUE]
ObjA(x) == [kind |-> "obj", a |-> x, b |-> 0, hasB |-> FALSE]

GoVal(type, doc) == [type |-> type, doc |-> doc]
NoVal == GoVal("nil", NoJson)
Int64(n) == GoVal("int64", Num(n))
String(s) == GoVal("string", Str(s))
StructAB(x, y) == GoVal("structAB", Obj(x, y))
Chan == GoVal("chan", NoJson)

\* the destination types a caller passes to Get
DestTypes == {"int64", "string", "structA", "structAB", "any"}

(***************************************************************************)
(* Errors.                                                                 *)
(***************************************************************************)
\* wrap: the number of fmt.Errorf("...: %w", err) wrappers around the error
Nil == [kind |-> "nil", arg |-> 0, wrap |-> 0]
NotFoundError(key) == [kind |-> "NotFoundError", arg |-> key, wrap |-> 0]
ErrNotFound == [kind |-> "ErrNotFound", arg |-> 0, wrap |-> 0]
RedisNil == [kind |-> "redis: nil", arg |-> 0, wrap |-> 0]
JsonError == [kind |-> "json", arg |-> 0, wrap |-> 0]
BackendError(t) == [kind |-> "backend", arg |-> t, wrap |-> 0]
\* errors.New("cache: key not found"): the message of ErrNotFound, another value
Lookalike == [kind |-> "cache: key not found", arg |-> 0, wrap |-> 0]

\* the wrapper has a message of its own and unwraps to err
Wrap(err) == [err EXCEPT !.wrap = err.wrap + 1]

\* mutant: the chain of wrapped errors is not followed
IsNotFound_Direct(err) ==
    IF err = Nil THEN FALSE
    ELSE IF err.wrap > 0 THEN FALSE
    ELSE err.kind \in {"NotFoundError", "ErrNotFound", "redis: nil"}

\* errors.As and errors.Is follow the chain; Error() is the outermost message
IsNotFound(err) ==
    IF err = Nil THEN FALSE
    ELSE IF err.kind = "NotFoundError" THEN TRUE
    ELSE IF err.kind = "ErrNotFound" THEN TRUE
    ELSE IF err.kind = "redis: nil" /\ err.wrap = 0 THEN TRUE
    ELSE FALSE

(***************************************************************************)
(* encoding/json as the store uses it.                                     *)
(***************************************************************************)
Marshal(v) ==
    IF v.type = "chan" THEN [err |-> JsonError, doc |-> NoJson]
    ELSE [err |-> Nil, doc |-> v.doc]

Unmarshal(doc, type) ==
    CASE type = "any" -> [err |-> Nil, val |-> GoVal("any", doc)]
      [] type = "int64" ->
            IF doc.kind = "num" THEN [err |-> Nil, val |-> Int64(doc.a)]
            ELSE [err |-> JsonError, val |-> Int64(0)]
      [] type = "string" ->
            IF doc.kind = "str" THEN [err |-> Nil, val |-> String(doc.a)]
            ELSE [err |-> JsonError, val |-> String(0)]
      [] type = "structA" ->
            IF doc.kind = "obj" THEN [err |-> Nil, val |-> GoVal("structA", ObjA(doc.a))]
            ELSE [err |-> JsonError, val |-> GoVal("structA", ObjA(0))]
      [] type = "structAB" ->
            IF doc.kind = "obj"
            THEN [err |-> Nil, val |-> StructAB(doc.a, IF doc.hasB THEN doc.b ELSE 0)]
            ELSE [err |-> JsonError, val |-> StructAB(0, 0)]
      [] OTHER -> [err |-> JsonError, val |-> NoVal]

(***************************************************************************)
(* The in-process store: cacheItem and the handlers of memoryCache, each   *)
(* as a function of the map s and the clock reading t.                     *)
(***************************************************************************)
NoItem == [value |-> NoJson, expiresAt |-> ZeroTime]
cacheItem(doc, exp) == [value |-> doc, expiresAt |-> exp]
EmptyStore == [k \in Keys |-> NoItem]

\* mutant: the comparison turned round
isExpired_Before(item, t) ==
    IF item.expiresAt = ZeroTime THEN FALSE ELSE t < item.expiresAt

isExpired(item, t) ==
    IF item.expiresAt = ZeroTime THEN FALSE ELSE t > item.expiresAt

\* `if ttl > 0 { item.expiresAt = time.Now().Add(ttl) }`
newItem(doc, ttl, t) == cacheItem(doc, IF ttl > 0 THEN t + ttl ELSE ZeroTime)

\* mutant: Get leaves expired entries to the sweep
MemGet_NoExpiry(s, key, type, t) ==
    IF s[key] = NoItem
    THEN [err |-> NotFoundError(key), val |-> NoVal]
    ELSE Unmarshal(s[key].value, type)

MemGet(s, key, type, t) ==
    IF s[key] = NoItem \/ isExpired(s[key], t)
    THEN [err |-> NotFoundError(key), val |-> NoVal]
    ELSE Unmarshal(s[key].value, type)

MemSet(s, key, v, ttl, t) ==
    LET m == Marshal(v) IN
    IF m.err # Nil THEN [err |-> m.err, store |-> s]
    ELSE [err |-> Nil, store |-> [s EXCEPT ![key] = newItem(m.doc, ttl, t)]]

\* mutant: Delete empties the map
MemDelete_Clear(s, key) == [err |-> Nil, store |-> EmptyStore]

MemDelete(s, key) == [err |-> Nil, store |-> [s EXCEPT ![key] = NoItem]]

MemExists(s, key, t) ==
    [err |-> Nil, ok |-> ~(s[key] = NoItem \/ isExpired(s[key], t))]

\* mutant: MGet leaves expired entries to the sweep
MemMGet_NoExpiry(s, keys, t) ==
    [err |-> Nil,
     vals |-> [k \in Keys |->
                 IF k \in keys /\ s[k] # NoItem
                    /\ Unmarshal(s[k].value, "any").err = Nil
                 THEN Unmarshal(s[k].value, "any").val
                 ELSE NoVal]]

\* the result map: NoVal stands for a key the map does not hold
MemMGet(s, keys, t) ==
    [err |-> Nil,
     vals |-> [k \in Keys |->
                 IF k \in keys /\ s[k] # NoItem /\ ~isExpired(s[k], t)
                    /\ Unmarshal(s[k].value, "any").err = Nil
                 THEN Unmarshal(s[k].value, "any").val
                 ELSE NoVal]]

MemMDelete(s, keys) ==
    [err |-> Nil, store |-> [k \in Keys |-> IF k \in keys THEN NoItem ELSE s[k]]]

\* the orders in which `range items` may visit the keys of the batch
Orders(keys) ==
    {seq \in [1..Cardinality(keys) -> keys] :
        \A i, j \in 1..Cardinality(keys) : i # j => seq[i] # seq[j]}

RECURSIVE MemMSetFrom(_, _, _, _, _, _)
MemMSetFrom(s, items, ttl, t, seq, i) ==
    IF i > Len(seq) THEN [err |-> Nil, store |-> s]
    ELSE LET m == Marshal(items[seq[i]]) IN
         IF m.err # Nil THEN [err |-> m.err, store |-> s]
         ELSE MemMSetFrom([s EXCEPT ![seq[i]] = newItem(m.doc, ttl, t)],
                          items, ttl, t, seq, i + 1)

\* items[k] = NoVal: the batch does not hold k; seq: the order of the range loop
MemMSet(s, items, ttl, t, seq) == MemMSetFrom(s, items, ttl, t, seq, 1)

\* mutant: IncrBy counts on from an expired entry
MemIncrBy_Stale(s, key, value, t) ==
    LET dec == Unmarshal(s[key].value, "int64")
        current == IF s[key] # NoItem /\ dec.err = Nil THEN dec.val.doc.a ELSE 0
        result == current + value
    IN [err |-> Nil, n |-> result,
        store |-> [s EXCEPT ![key] = cacheItem(Marshal(Int64(result)).doc, ZeroTime)]]

MemIncrBy(s, key, value, t) ==
    LET dec == Unmarshal(s[key].value, "int64")
        current == IF s[key] # NoItem /\ ~isExpired(s[key], t) /\ dec.err = Nil
                   THEN dec.val.doc.a ELSE 0
        result == current + value
    IN [err |-> Nil, n |-> result,
        store |-> [s EXCEPT ![key] = cacheItem(Marshal(Int64(result)).doc, ZeroTime)]]

MemDecrBy(s, key, value, t) == MemIncrBy(s, key, 0 - value, t)
MemIncr(s, key, t) == MemIncrBy(s, key, 1, t)
MemDecr(s, key, t) == MemDecrBy(s, key, 1, t)

\* mutant: SetNX writes whether or not the key is there
MemSetNX_Overwrite(s, key, v, ttl, t) ==
    LET m == Marshal(v) IN
    IF m.err # Nil THEN [err |-> m.err, ok |-> FALSE, store |-> s]
    ELSE [err |-> Nil, ok |-> TRUE,
          store |-> [s EXCEPT ![key] = newItem(m.doc, ttl, t)]]

MemSetNX(s, key, v, ttl, t) ==
    IF s[key] # NoItem /\ ~isExpired(s[key], t)
    THEN [err |-> Nil, ok |-> FALSE, store |-> s]
    ELSE LET m == Marshal(v) IN
         IF m.err # Nil THEN [err |-> m.err, ok |-> FALSE, store |-> s]
         ELSE [err |-> Nil, ok |-> TRUE,
               store |-> [s EXCEPT ![key] = newItem(m.doc, ttl, t)]]

\* mutant: Expire treats ttl <= 0 as Set does, as no expiration
MemExpire_Persist(s, key, ttl, t) ==
    [err |-> Nil,
     store |-> IF s[key] # NoItem
               THEN [s EXCEPT ![key] = newItem(s[key].value, ttl, t)]
               ELSE s]

\* mutant: Expire extends the expiration the entry has
MemExpire_Extend(s, key, ttl, t) ==
    [err |-> Nil,
     store |-> IF s[key] # NoItem
               THEN [s EXCEPT ![key] =
                        cacheItem(s[key].value,
                                  IF s[key].expiresAt = ZeroTime THEN t + ttl
                                  ELSE s[key].expiresAt + ttl)]
               ELSE s]

MemExpire(s, key, ttl, t) ==
    [err |-> Nil,
     store |-> IF s[key] # NoItem
               THEN [s EXCEPT ![key] = cacheItem(s[key].value, t + ttl)]
               ELSE s]

MemTTL(s, key, t) ==
    IF s[key] = NoItem THEN [err |-> Nil, d |-> -2]
    ELSE IF s[key].expiresAt = ZeroTime THEN [err |-> Nil, d |-> -1]
    ELSE IF isExpired(s[key], t) THEN [err |-> Nil, d |-> -2]
    ELSE [err |-> Nil, d |-> s[key].expiresAt - t]

\* mutant: the pass also deletes the entries that expire at this very instant
SweepPass_AtExpiry(s, t) ==
    [k \in Keys |->
        IF s[k] # NoItem /\ s[k].expiresAt # ZeroTime /\ t >= s[k].expiresAt
        THEN NoItem ELSE s[k]]

\* one pass of cleanup(): delete every expired entry
SweepPass(s, t) ==
    [k \in Keys |-> IF s[k] # NoItem /\ isExpired(s[k], t) THEN NoItem ELSE s[k]]

(***************************************************************************)
(* Calls and what they return.  `last` is the call the last step completed *)
(* (NoCall after a step of the environment); tier Multi is the             *)
(* orchestrator.                                                           *)
(***************************************************************************)
Multi == 0 - 1
NoMap == [k \in Keys |-> NoVal]
NoCall ==
    [op |-> "none", tier |-> Multi, key |-> 0, keys |-> {}, val |-> NoVal,
     items |-> NoMap, ttl |-> 0, n |-> 0, dest |-> "nil", fail |-> {},
     err |-> Nil, rval |-> NoVal, rint |-> 0, rbool |-> FALSE, rmap |-> NoMap,
     hit |-> Multi, seq |-> <<>>, asked |-> <<>>, began |-> 0]
Call(op, t, k) == [NoCall EXCEPT !.op = op, !.tier = t, !.key = k]

\* the history of writes: the handler that wrote the entry last ("store" for
\* Set, SetNX and MSet), the ttl it was given and, when it asked for an
\* expiration, the clock at the write
NoWrite == [op |-> "none", at |-> 0, ttl |-> 0]
Write(op, ttl, timed) == [op |-> op, at |-> IF timed THEN now ELSE 0, ttl |-> ttl]
NoWrites == [k \in Keys |-> NoWrite]

\* the values callers store, the batches of MSet and the key lists of MGet/MDelete
SetVals == {Int64(n) : n \in 1..MaxCount} \cup {Chan}
\* single-key calls go to the keys of HotKeys; batches and key lists range over Keys
HotKeys == {1}
BatchVals == {Int64(1), Chan}
BatchTTLs == {0, MaxTTL}
Batches == {m \in [Keys -> BatchVals \cup {NoVal}] : m # NoMap}
KeyLists == SUBSET Keys \ {{}}
GetTypes == {"int64", "string"}

\* time.NewTicker: running, with no tick waiting in its channel
NewTicker == [running |-> TRUE, c |-> 0]

Init ==
    /\ now = StartTime
    /\ data = [t \in Tiers |-> EmptyStore]
    /\ closed = [t \in Tiers |-> FALSE]
    /\ wr = [t \in Tiers |-> NoWrites]
    /\ last = NoCall
    /\ mu = [writer |-> 0, readers |-> {}]
    /\ pc = [p \in Procs |-> "idle"]
    /\ loc = [p \in Procs |-> NoCall]
    /\ done = <<>>
    /\ held = [p \in Procs |-> NoItem]
    /\ lin = [p \in Procs |-> {}]
    /\ task = [t \in Tiers |-> [i \in Tasks |-> IF i = 1 THEN "select" ELSE "none"]]
    /\ cleaner = [t \in Tiers |-> NewTicker]

\* the history of the reads in flight after a step: the result an atomic Get
\* has in the new state joins what the read could have returned so far
Observe ==
    lin' = [p \in Procs |->
              IF pc'[p] = "idle" \/ loc'[p].op # "Get" \/ loc'[p].tier = Multi THEN {}
              ELSE (IF pc[p] = "idle" THEN {} ELSE lin[p])
                   \cup {MemGet(data'[loc'[p].tier], loc'[p].key, loc'[p].dest, now')}]

\* the rest of a step that is no goroutine's and no sweep task's
Idle == UNCHANGED <<mu, pc, loc, done, held, task, cleaner>> /\ Observe

(***************************************************************************)
(* The environment: the clock advances; the ticker of an open store fires  *)
(* and cleanup() runs one pass.                                            *)
(***************************************************************************)
Tick ==
    /\ now < MaxTime
    /\ now' = now + 1
    /\ last' = NoCall
    /\ UNCHANGED <<data, closed, wr>> /\ Idle

Sweep(t) ==
    /\ ~closed[t]
    /\ data' = [data EXCEPT ![t] = SweepPass(data[t], now)]
    /\ last' = Call("sweep", t, 0)
    /\ UNCHANGED <<now, closed, wr>> /\ Idle

(***************************************************************************)
(* A caller's call of one handler of the in-process store of tier t, run   *)
(* from call to return with no other goroutine in between.                 *)
(***************************************************************************)
Get(t, key, type) ==
    LET r == MemGet(data[t], key, type, now) IN
    /\ last' = [Call("Get", t, key) EXCEPT !.dest = type, !.err = r.err, !.rval = r.val]
    /\ UNCHANGED <<now, data, closed, wr>> /\ Idle

Set(t, key, v, ttl) ==
    LET r == MemSet(data[t], key, v, ttl, now) IN
    /\ data' = [data EXCEPT ![t] = r.store]
    /\ wr' = IF r.err = Nil THEN [wr EXCEPT ![t][key] = Write("store", ttl, ttl > 0)] ELSE wr
    /\ last' = [Call("Set", t, key) EXCEPT !.val = v, !.ttl = ttl, !.err = r.err]
    /\ UNCHANGED <<now, closed>> /\ Idle

Delete(t, key) ==
    LET r == MemDelete(data[t], key) IN
    /\ data' = [data EXCEPT ![t] = r.store]
    /\ wr' = [wr EXCEPT ![t][key] = Write("Delete", 0, FALSE)]
    /\ last' = [Call("Delete", t, key) EXCEPT !.err = r.err]
    /\ UNCHANGED <<now, closed>> /\ Idle

Exists(t, key) ==
    LET r == MemExists(data[t], key, now) IN
    /\ last' = [Call("Exists", t, key) EXCEPT !.err = r.err, !.rbool = r.ok]
    /\ UNCHANGED <<now, data, closed, wr>> /\ Idle

MGet(t, keys) ==
    LET r == MemMGet(data[t], keys, now) IN
    /\ last' = [Call("MGet", t, 0) EXCEPT !.keys = keys, !.err = r.err, !.rmap = r.vals]
    /\ UNCHANGED <<now, data, closed, wr>> /\ Idle

MDelete(t, keys) ==
    LET r == MemMDelete(data[t], keys) IN
    /\ data' = [data EXCEPT ![t] = r.store]
    /\ wr' = [wr EXCEPT ![t] = [k \in Keys |->
                  IF k \in keys THEN Write("Delete", 0, FALSE) ELSE wr[t][k]]]
    /\ last' = [Call("MDelete", t, 0) EXCEPT !.keys = keys, !.err = r.err]
    /\ UNCHANGED <<now, closed>> /\ Idle

\* the counters of the model stay within Counts
IncrBy(t, key, value) ==
    LET r == MemIncrBy(data[t], key, value, now) IN
    /\ r.n \in Counts
    /\ data' = [data EXCEPT ![t] = r.store]
    /\ wr' = [wr EXCEPT ![t][key] = Write("IncrBy", 0, FALSE)]
    /\ last' = [Call("IncrBy", t, key) EXCEPT !.n = value, !.err = r.err, !.rint = r.n]
    /\ UNCHANGED <<now, closed>> /\ Idle

DecrBy(t, key, value) ==
    LET r == MemDecrBy(data[t], key, value, now) IN
    /\ r.n \in Counts
    /\ data' = [data EXCEPT ![t] = r.store]
    /\ wr' = [wr EXCEPT ![t][key] = Write("IncrBy", 0, FALSE)]
    /\ last' = [Call("DecrBy", t, key) EXCEPT !.n = value, !.err = r.err, !.rint = r.n]
    /\ UNCHANGED <<now, closed>> /\ Idle

Incr(t, key) ==
    LET r == MemIncr(data[t], key, now) IN
    /\ r.n \in Counts
    /\ data' = [data EXCEPT ![t] = r.store]
    /\ wr' = [wr EXCEPT ![t][key] = Write("IncrBy", 0, FALSE)]
    /\ last' = [Call("Incr", t, key) EXCEPT !.err = r.err, !.rint = r.n]
    /\ UNCHANGED <<now, closed>> /\ Idle

Decr(t, key) ==
    LET r == MemDecr(data[t], key, now) IN
    /\ r.n \in Counts
    /\ data' = [data EXCEPT ![t] = r.store]
    /\ wr' = [wr EXCEPT ![t][key] = Write("IncrBy", 0, FALSE)]
    /\ last' = [Call("Decr", t, key) EXCEPT !.err = r.err, !.rint = r.n]
    /\ UNCHANGED <<now, closed>> /\ Idle

SetNX(t, key, v, ttl) ==
    LET r == MemSetNX(data[t], key, v, ttl, now) IN
    /\ data' = [data EXCEPT ![t] = r.store]
    /\ wr' = IF r.ok THEN [wr EXCEPT ![t][key] = Write("store", ttl, ttl > 0)] ELSE wr
    /\ last' = [Call("SetNX", t, key) EXCEPT
                   !.val = v, !.ttl = ttl, !.err = r.err, !.rbool = r.ok]
    /\ UNCHANGED <<now, closed>> /\ Idle

Expire(t, key, ttl) ==
    LET r == MemExpire(data[t], key, ttl, now) IN
    /\ data' = [data EXCEPT ![t] = r.store]
    /\ wr' = IF data[t][key] # NoItem
             THEN [wr EXCEPT ![t][key] = Write("Expire", ttl, TRUE)] ELSE wr
    /\ last' = [Call("Expire", t, key) EXCEPT !.ttl = ttl, !.err = r.err]
    /\ UNCHANGED <<now, closed>> /\ Idle

TTL(t, key) ==
    LET r == MemTTL(data[t], key, now) IN
    /\ last' = [Call("TTL", t, key) EXCEPT !.err = r.err, !.rint = r.d]
    /\ UNCHANGED <<now, data, closed, wr>> /\ Idle

\* Close(): close(c.stop); the store is closed once
Close(t) ==
    /\ ~closed[t]
    /\ closed' = [closed EXCEPT ![t] = TRUE]
    /\ last' = Call("Close", t, 0)
    /\ UNCHANGED <<now, data, wr>> /\ Idle

Ping(t) ==
    /\ last' = Call("Ping", t, 0)
    /\ UNCHANGED <<now, data, closed, wr>> /\ Idle

BatchKeys(items) == {k \in Keys : items[k] # NoVal}

MSet(t, items, ttl, seq) ==
    LET r == MemMSet(data[t], items, ttl, now, seq) IN
    /\ data' = [data EXCEPT ![t] = r.store]
    /\ wr' = [wr EXCEPT ![t] = [k \in Keys |->
                  IF r.store[k] # data[t][k] \/ (r.err = Nil /\ k \in BatchKeys(items))
                  THEN Write("store", ttl, ttl > 0) ELSE wr[t][k]]]
    /\ last' = [Call("MSet", t, 0) EXCEPT
                   !.items = items, !.keys = BatchKeys(items), !.ttl = ttl, !.err = r.err]
    /\ UNCHANGED <<now, closed>> /\ Idle

(***************************************************************************)
(* Spec: one in-process store (tier 0) and one caller at a time.           *)
(***************************************************************************)
ReadCall(t) ==
    \/ \E k \in HotKeys, ty \in GetTypes : Get(t, k, ty)
    \/ \E k \in HotKeys : Exists(t, k)
    \/ \E ks \in KeyLists : MGet(t, ks)
    \/ \E k \in HotKeys : TTL(t, k)

WriteCall(t) ==
    \/ \E k \in HotKeys, v \in SetVals, ttl \in TTLs : Set(t, k, v, ttl)
    \/ \E k \in HotKeys : Delete(t, k)
    \/ \E m \in Batches, ttl \in BatchTTLs :
          \E seq \in Orders(BatchKeys(m)) : MSet(t, m, ttl, seq)
    \/ \E ks \in KeyLists : MDelete(t, ks)
    \/ \E k \in HotKeys, v \in SetVals, ttl \in TTLs : SetNX(t, k, v, ttl)
    \/ \E k \in HotKeys, ttl \in TTLs : Expire(t, k, ttl)

CounterCall(t) ==
    \/ \E k \in HotKeys : Incr(t, k)
    \/ \E k \in HotKeys, n \in Counts : IncrBy(t, k, n)
    \/ \E k \in HotKeys : Decr(t, k)
    \/ \E k \in HotKeys, n \in Counts : DecrBy(t, k, n)

Next ==
    \/ ReadCall(0)
    \/ WriteCall(0)
    \/ Sweep(0)
    \/ Tick

Spec == Init /\ [][Next]_vars

(***************************************************************************)
(* SpecCount: the counters of one in-process store (tier 0), one caller at *)
(* a time; the key may also hold a string.                                 *)
(***************************************************************************)
CounterVals == {Int64(1), String(1)}

NextCount ==
    \/ CounterCall(0)
    \/ \E k \in HotKeys, v \in CounterVals, ttl \in TTLs : Set(0, k, v, ttl)
    \/ \E k \in HotKeys : Get(0, k, "int64")
    \/ \E k \in HotKeys : TTL(0, k)
    \/ \E k \in HotKeys : Delete(0, k)
    \/ Sweep(0)
    \/ Tick

SpecCount == Init /\ [][NextCount]_vars

(***************************************************************************)
(* The orchestrator, multiLevelCache.  A level is a Cache: here an         *)
(* in-process store behind the interface whose calls may fail as those of  *)
(* the network-backed adapter do.  `fail` names the calls <<tier, handler>>*)
(* that fail during one call of the orchestrator: such a call returns that *)
(* tier's backend error and does nothing.                                  *)
(***************************************************************************)
Fails(fail, i, op) == <<i, op>> \in fail

LevelGet(d, i, key, type, t, fail) ==
    IF Fails(fail, i, "Get") THEN [err |-> BackendError(i), val |-> NoVal]
    ELSE MemGet(d[i], key, type, t)

LevelTTL(d, i, key, t, fail) ==
    IF Fails(fail, i, "TTL") THEN [err |-> BackendError(i), d |-> 0]
    ELSE MemTTL(d[i], key, t)

LevelSet(d, i, key, v, ttl, t, fail) ==
    IF Fails(fail, i, "Set") THEN [err |-> BackendError(i), store |-> d[i]]
    ELSE MemSet(d[i], key, v, ttl, t)

LevelDelete(d, i, key, fail) ==
    IF Fails(fail, i, "Delete") THEN [err |-> BackendError(i), store |-> d[i]]
    ELSE MemDelete(d[i], key)

LevelMSet(d, i, items, ttl, t, seq, fail) ==
    IF Fails(fail, i, "MSet") THEN [err |-> BackendError(i), store |-> d[i]]
    ELSE MemMSet(d[i], items, ttl, t, seq)

LevelMDelete(d, i, keys, fail) ==
    IF Fails(fail, i, "MDelete") THEN [err |-> BackendError(i), store |-> d[i]]
    ELSE MemMDelete(d[i], keys)

LevelExpire(d, i, key, ttl, t, fail) ==
    IF Fails(fail, i, "Expire") THEN [err |-> BackendError(i), store |-> d[i]]
    ELSE MemExpire(d[i], key, ttl, t)

LevelClose(i, fail) ==
    IF Fails(fail, i, "Close") THEN [err |-> BackendError(i), closed |-> FALSE]
    ELSE [err |-> Nil, closed |-> TRUE]

\* `for i, level := range c.levels { if err := level.Get(...); err == nil {`:
\* the first level whose Get succeeds, Multi when none does
\* mutant: the levels are probed from the farthest to the nearest
RECURSIVE FirstHit_Deepest(_, _, _, _, _, _)
FirstHit_Deepest(d, key, type, t, fail, i) ==
    IF i > LastTier THEN Multi
    ELSE IF LevelGet(d, LastTier - i, key, type, t, fail).err = Nil THEN LastTier - i
    ELSE FirstHit_Deepest(d, key, type, t, fail, i + 1)

RECURSIVE FirstHit(_, _, _, _, _, _)
FirstHit(d, key, type, t, fail, i) ==
    IF i > LastTier THEN Multi
    ELSE IF LevelGet(d, i, key, type, t, fail).err = Nil THEN i
    ELSE FirstHit(d, key, type, t, fail, i + 1)

\* mutant: the backfill is written with no expiration
OrchGet_BackfillForever(d, key, type, t, fail) ==
    LET i == FirstHit(d, key, type, t, fail, 0) IN
    IF i = Multi
    THEN [err |-> NotFoundError(key), val |-> NoVal, hit |-> Multi, ttl |-> 0, stores |-> d]
    ELSE LET r == LevelGet(d, i, key, type, t, fail)
             ttl == IF i > 0 THEN LevelTTL(d, i, key, t, fail).d ELSE 0
         IN [err |-> Nil, val |-> r.val, hit |-> i, ttl |-> ttl,
             stores |-> [j \in Tiers |->
                           IF i > 0 /\ ttl > 0 /\ j < i
                           THEN LevelSet(d, j, key, r.val, 0, t, fail).store
                           ELSE d[j]]]

\* mutant: a hit without expiration is written back too
OrchGet_BackfillPersistent(d, key, type, t, fail) ==
    LET i == FirstHit(d, key, type, t, fail, 0) IN
    IF i = Multi
    THEN [err |-> NotFoundError(key), val |-> NoVal, hit |-> Multi, ttl |-> 0, stores |-> d]
    ELSE LET r == LevelGet(d, i, key, type, t, fail)
             ttl == IF i > 0 THEN LevelTTL(d, i, key, t, fail).d ELSE 0
         IN [err |-> Nil, val |-> r.val, hit |-> i, ttl |-> ttl,
             stores |-> [j \in Tiers |->
                           IF i > 0 /\ (ttl > 0 \/ ttl = 0 - 1) /\ j < i
                           THEN LevelSet(d, j, key, r.val, ttl, t, fail).store
                           ELSE d[j]]]

\* mutant: a hit is copied to every other level, the deeper ones too
OrchGet_BackfillDeeper(d, key, type, t, fail) ==
    LET i == FirstHit(d, key, type, t, fail, 0) IN
    IF i = Multi
    THEN [err |-> NotFoundError(key), val |-> NoVal, hit |-> Multi, ttl |-> 0, stores |-> d]
    ELSE LET r == LevelGet(d, i, key, type, t, fail)
             ttl == LevelTTL(d, i, key, t, fail).d
         IN [err |-> Nil, val |-> r.val, hit |-> i, ttl |-> IF i > 0 THEN ttl ELSE 0,
             stores |-> [j \in Tiers |->
                           IF ttl > 0 /\ j # i
                           THEN LevelSet(d, j, key, r.val, ttl, t, fail).store
                           ELSE d[j]]]

OrchGet(d, key, type, t, fail) ==
    LET i == FirstHit(d, key, type, t, fail, 0) IN
    IF i = Multi
    THEN [err |-> NotFoundError(key), val |-> NoVal, hit |-> Multi, ttl |-> 0, stores |-> d]
    ELSE LET r == LevelGet(d, i, key, type, t, fail)
             ttl == IF i > 0 THEN LevelTTL(d, i, key, t, fail).d ELSE 0
         IN [err |-> Nil, val |-> r.val, hit |-> i, ttl |-> ttl,
             stores |-> [j \in Tiers |->
                           IF i > 0 /\ ttl > 0 /\ j < i
                           THEN LevelSet(d, j, key, r.val, ttl, t, fail).store
                           ELSE d[j]]]

\* the calls on the levels that a Get of the orchestrator makes, given its hit
GetCalls(hit, ttl) ==
    {<<j, "Get">> : j \in IF hit = Multi THEN Tiers ELSE 0..hit}
    \cup (IF hit > 0 THEN {<<hit, "TTL">>} ELSE {})
    \cup (IF hit > 0 /\ ttl > 0 THEN {<<j, "Set">> : j \in 0..(hit - 1)} ELSE {})

\* `var lastErr error; for ... { if err := ...; err != nil { lastErr = err } }`
\* mutant: the first error is kept
RECURSIVE LastErrFrom_First(_, _, _)
LastErrFrom_First(errs, i, lastErr) ==
    IF i > LastTier THEN lastErr
    ELSE LastErrFrom_First(errs, i + 1,
                           IF errs[i] # Nil /\ lastErr = Nil THEN errs[i] ELSE lastErr)

RECURSIVE LastErrFrom(_, _, _)
LastErrFrom(errs, i, lastErr) ==
    IF i > LastTier THEN lastErr
    ELSE LastErrFrom(errs, i + 1, IF errs[i] # Nil THEN errs[i] ELSE lastErr)

LastErr(errs) == LastErrFrom(errs, 0, Nil)

OrchSet(d, key, v, ttl, t, fail) ==
    LET r == [i \in Tiers |-> LevelSet(d, i, key, v, ttl, t, fail)] IN
    [err |-> LastErr([i \in Tiers |-> r[i].err]), errs |-> [i \in Tiers |-> r[i].err],
     stores |-> [i \in Tiers |-> r[i].store]]

OrchDelete(d, key, fail) ==
    LET r == [i \in Tiers |-> LevelDelete(d, i, key, fail)] IN
    [err |-> LastErr([i \in Tiers |-> r[i].err]), errs |-> [i \in Tiers |-> r[i].err],
     stores |-> [i \in Tiers |-> r[i].store]]

\* seqs[i]: the order in which level i ranges over the batch
OrchMSet(d, items, ttl, t, seqs, fail) ==
    LET r == [i \in Tiers |-> LevelMSet(d, i, items, ttl, t, seqs[i], fail)] IN
    [err |-> LastErr([i \in Tiers |-> r[i].err]), errs |-> [i \in Tiers |-> r[i].err],
     stores |-> [i \in Tiers |-> r[i].store]]

OrchMDelete(d, keys, fail) ==
    LET r == [i \in Tiers |-> LevelMDelete(d, i, keys, fail)] IN
    [err |-> LastErr([i \in Tiers |-> r[i].err]), errs |-> [i \in Tiers |-> r[i].err],
     stores |-> [i \in Tiers |-> r[i].store]]

OrchExpire(d, key, ttl, t, fail) ==
    LET r == [i \in Tiers |-> LevelExpire(d, i, key, ttl, t, fail)] IN
    [err |-> LastErr([i \in Tiers |-> r[i].err]), errs |-> [i \in Tiers |-> r[i].err],
     stores |-> [i \in Tiers |-> r[i].store]]

OrchClose(fail) ==
    LET r == [i \in Tiers |-> LevelClose(i, fail)] IN
    [err |-> LastErr([i \in Tiers |-> r[i].err]), errs |-> [i \in Tiers |-> r[i].err],
     closed |-> [i \in Tiers |-> r[i].closed]]

\* the levels in the order of `range c.levels`
AllLevels == [i \in 1..NumTiers |-> i - 1]
UpTo(hit) == [i \in 1..(hit + 1) |-> i - 1]
FailSets(op) == SUBSET {<<i, op>> : i \in Tiers}

\* the levels of an orchestrator in use are open (spec 5: calls on a closed
\* store are left undefined)
Open == \A i \in Tiers : ~closed[i]

(***************************************************************************)
(* A caller's call of one handler of the orchestrator, from call to        *)
(* return.                                                                 *)
(***************************************************************************)
MultiGet(key, type, fail) ==
    LET r == OrchGet(data, key, type, now, fail) IN
    /\ Open
    /\ fail \subseteq GetCalls(r.hit, r.ttl)
    /\ data' = r.stores
    /\ wr' = [j \in Tiers |->
                IF r.hit > 0 /\ r.ttl > 0 /\ j < r.hit /\ ~Fails(fail, j, "Set")
                THEN [wr[j] EXCEPT ![key] = Write("store", r.ttl, TRUE)] ELSE wr[j]]
    /\ last' = [Call("Get", Multi, key) EXCEPT
                   !.dest = type, !.fail = fail, !.err = r.err, !.rval = r.val,
                   !.hit = r.hit, !.ttl = r.ttl,
                   !.seq = IF r.hit = Multi THEN AllLevels ELSE UpTo(r.hit)]
    /\ UNCHANGED <<now, closed>> /\ Idle

MultiSet(key, v, ttl, fail) ==
    LET r == OrchSet(data, key, v, ttl, now, fail) IN
    /\ Open
    /\ data' = r.stores
    /\ wr' = [i \in Tiers |->
                IF r.errs[i] = Nil
                THEN [wr[i] EXCEPT ![key] = Write("store", ttl, ttl > 0)] ELSE wr[i]]
    /\ last' = [Call("Set", Multi, key) EXCEPT
                   !.val = v, !.ttl = ttl, !.fail = fail, !.err = r.err, !.seq = AllLevels]
    /\ UNCHANGED <<now, closed>> /\ Idle

MultiDelete(key, fail) ==
    LET r == OrchDelete(data, key, fail) IN
    /\ Open
    /\ data' = r.stores
    /\ wr' = [i \in Tiers |->
                IF r.errs[i] = Nil
                THEN [wr[i] EXCEPT ![key] = Write("Delete", 0, FALSE)] ELSE wr[i]]
    /\ last' = [Call("Delete", Multi, key) EXCEPT
                   !.fail = fail, !.err = r.err, !.seq = AllLevels]
    /\ UNCHANGED <<now, closed>> /\ Idle

MultiMSet(items, ttl, seqs, fail) ==
    LET r == OrchMSet(data, items, ttl, now, seqs, fail) IN
    /\ Open
    /\ data' = r.stores
    /\ wr' = [i \in Tiers |-> [k \in Keys |->
                IF r.stores[i][k] # data[i][k]
                   \/ (/\ r.errs[i] = Nil
                       /\ k \in BatchKeys(items))
                THEN Write("store", ttl, ttl > 0) ELSE wr[i][k]]]
    /\ last' = [Call("MSet", Multi, 0) EXCEPT
                   !.items = items, !.keys = BatchKeys(items), !.ttl = ttl,
                   !.fail = fail, !.err = r.err, !.seq = AllLevels]
    /\ UNCHANGED <<now, closed>> /\ Idle

MultiMDelete(keys, fail) ==
    LET r == OrchMDelete(data, keys, fail) IN
    /\ Open
    /\ data' = r.stores
    /\ wr' = [i \in Tiers |-> [k \in Keys |->
                IF k \in keys /\ r.errs[i] = Nil
                THEN Write("Delete", 0, FALSE) ELSE wr[i][k]]]
    /\ last' = [Call("MDelete", Multi, 0) EXCEPT
                   !.keys = keys, !.fail = fail, !.err = r.err, !.seq = AllLevels]
    /\ UNCHANGED <<now, closed>> /\ Idle

MultiExpire(key, ttl, fail) ==
    LET r == OrchExpire(data, key, ttl, now, fail) IN
    /\ Open
    /\ data' = r.stores
    /\ wr' = [i \in Tiers |->
                IF data[i][key] # NoItem /\ ~Fails(fail, i, "Expire")
                THEN [wr[i] EXCEPT ![key] = Write("Expire", ttl, TRUE)] ELSE wr[i]]
    /\ last' = [Call("Expire", Multi, key) EXCEPT
                   !.ttl = ttl, !.fail = fail, !.err = r.err, !.seq = AllLevels]
    /\ UNCHANGED <<now, closed>> /\ Idle

MultiClose(fail) ==
    LET r == OrchClose(fail) IN
    /\ Open
    /\ closed' = r.closed
    /\ last' = [Call("Close", Multi, 0) EXCEPT
                   !.fail = fail, !.err = r.err, !.seq = AllLevels]
    /\ UNCHANGED <<now, data, wr>> /\ Idle

(***************************************************************************)
(* The handlers the orchestrator delegates to its last level: the counters,*)
(* TTL and the decision of SetNX.  `levels` is c.levels, the levels the    *)
(* orchestrator was constructed with: all of them, or none.                *)
(***************************************************************************)
NoLevels == <<>>
Empty == 0 - 2

\* the label of a call on the orchestrator with these levels
Orch(levels) == IF Len(levels) = 0 THEN Empty ELSE Multi

LevelIncrBy(d, i, key, value, t, fail) ==
    IF Fails(fail, i, "IncrBy") THEN [err |-> BackendError(i), n |-> 0, store |-> d[i]]
    ELSE MemIncrBy(d[i], key, value, t)

LevelIncr(d, i, key, t, fail) ==
    IF Fails(fail, i, "Incr") THEN [err |-> BackendError(i), n |-> 0, store |-> d[i]]
    ELSE MemIncr(d[i], key, t)

LevelDecrBy(d, i, key, value, t, fail) ==
    IF Fails(fail, i, "DecrBy") THEN [err |-> BackendError(i), n |-> 0, store |-> d[i]]
    ELSE MemDecrBy(d[i], key, value, t)

LevelDecr(d, i, key, t, fail) ==
    IF Fails(fail, i, "Decr") THEN [err |-> BackendError(i), n |-> 0, store |-> d[i]]
    ELSE MemDecr(d[i], key, t)

LevelSetNX(d, i, key, v, ttl, t, fail) ==
    IF Fails(fail, i, "SetNX")
    THEN [err |-> BackendError(i), ok |-> FALSE, store |-> d[i]]
    ELSE MemSetNX(d[i], key, v, ttl, t)

\* mutant: the counter of the first level is used
OrchIncrBy_First(levels, d, key, value, t, fail) ==
    IF Len(levels) > 0
    THEN LET i == levels[1]
             r == LevelIncrBy(d, i, key, value, t, fail)
         IN [err |-> r.err, n |-> r.n, stores |-> [d EXCEPT ![i] = r.store]]
    ELSE [err |-> Nil, n |-> 0, stores |-> d]

OrchIncrBy(levels, d, key, value, t, fail) ==
    IF Len(levels) > 0
    THEN LET i == levels[Len(levels)]
             r == LevelIncrBy(d, i, key, value, t, fail)
         IN [err |-> r.err, n |-> r.n, stores |-> [d EXCEPT ![i] = r.store]]
    ELSE [err |-> Nil, n |-> 0, stores |-> d]

OrchIncr(levels, d, key, t, fail) ==
    IF Len(levels) > 0
    THEN LET i == levels[Len(levels)]
             r == LevelIncr(d, i, key, t, fail)
         IN [err |-> r.err, n |-> r.n, stores |-> [d EXCEPT ![i] = r.store]]
    ELSE [err |-> Nil, n |-> 0, stores |-> d]

OrchDecrBy(levels, d, key, value, t, fail) ==
    IF Len(levels) > 0
    THEN LET i == levels[Len(levels)]
             r == LevelDecrBy(d, i, key, value, t, fail)
         IN [err |-> r.err, n |-> r.n, stores |-> [d EXCEPT ![i] = r.store]]
    ELSE [err |-> Nil, n |-> 0, stores |-> d]

OrchDecr(levels, d, key, t, fail) ==
    IF Len(levels) > 0
    THEN LET i == levels[Len(levels)]
             r == LevelDecr(d, i, key, t, fail)
         IN [err |-> r.err, n |-> r.n, stores |-> [d EXCEPT ![i] = r.store]]
    ELSE [err |-> Nil, n |-> 0, stores |-> d]

\* mutant: an orchestrator without levels reports a key without expiration
OrchTTL_NoLevels(levels, d, key, t, fail) ==
    IF Len(levels) > 0
    THEN LevelTTL(d, levels[Len(levels)], key, t, fail)
    ELSE [err |-> Nil, d |-> 0 - 1]

OrchTTL(levels, d, key, t, fail) ==
    IF Len(levels) > 0
    THEN LevelTTL(d, levels[Len(levels)], key, t, fail)
    ELSE [err |-> Nil, d |-> 0 - 2]

\* mutant: the earlier levels are written whatever the last level decided
OrchSetNX_Always(levels, d, key, v, ttl, t, fail) ==
    IF Len(levels) > 0
    THEN LET n == levels[Len(levels)]
             r == LevelSetNX(d, n, key, v, ttl, t, fail)
         IN IF r.err # Nil THEN [err |-> r.err, ok |-> FALSE, stores |-> d]
            ELSE [err |-> Nil, ok |-> r.ok,
                  stores |-> [j \in Tiers |->
                                IF j = n THEN r.store
                                ELSE LevelSet(d, j, key, v, ttl, t, fail).store]]
    ELSE [err |-> Nil, ok |-> FALSE, stores |-> d]

OrchSetNX(levels, d, key, v, ttl, t, fail) ==
    IF Len(levels) > 0
    THEN LET n == levels[Len(levels)]
             r == LevelSetNX(d, n, key, v, ttl, t, fail)
         IN IF r.err # Nil THEN [err |-> r.err, ok |-> FALSE, stores |-> d]
            ELSE [err |-> Nil, ok |-> r.ok,
                  stores |-> [j \in Tiers |->
                                IF j = n THEN r.store
                                ELSE IF r.ok /\ \E x \in 1..(Len(levels) - 1) : levels[x] = j
                                     THEN LevelSet(d, j, key, v, ttl, t, fail).store
                                     ELSE d[j]]]
    ELSE [err |-> Nil, ok |-> FALSE, stores |-> d]

\* Get on an orchestrator with these levels: with none the loop has no turn
OrchGetOn(levels, d, key, type, t, fail) ==
    IF Len(levels) = 0
    THEN [err |-> NotFoundError(key), val |-> NoVal, hit |-> Multi, ttl |-> 0, stores |-> d]
    ELSE OrchGet(d, key, type, t, fail)

\* the one call on a level that a delegating handler makes
LastCall(levels, op) == IF Len(levels) = 0 THEN {} ELSE {<<levels[Len(levels)], op>>}
LastOnly(levels) == IF Len(levels) = 0 THEN <<>> ELSE <<levels[Len(levels)]>>
Usable(levels) == Len(levels) = 0 \/ Open

\* the history after a counter call on the orchestrator
Counted(levels, key, err) ==
    IF err = Nil /\ Len(levels) > 0
    THEN [wr EXCEPT ![levels[Len(levels)]][key] = Write("IncrBy", 0, FALSE)]
    ELSE wr

MultiIncrBy(levels, key, value, fail) ==
    LET r == OrchIncrBy(levels, data, key, value, now, fail) IN
    /\ Usable(levels) /\ r.n \in Counts
    /\ fail \subseteq LastCall(levels, "IncrBy")
    /\ data' = r.stores
    /\ wr' = Counted(levels, key, r.err)
    /\ last' = [Call("IncrBy", Orch(levels), key) EXCEPT
                   !.n = value, !.fail = fail, !.err = r.err, !.rint = r.n,
                   !.seq = LastOnly(levels)]
    /\ UNCHANGED <<now, closed>> /\ Idle

MultiIncr(levels, key, fail) ==
    LET r == OrchIncr(levels, data, key, now, fail) IN
    /\ Usable(levels) /\ r.n \in Counts
    /\ fail \subseteq LastCall(levels, "Incr")
    /\ data' = r.stores
    /\ wr' = Counted(levels, key, r.err)
    /\ last' = [Call("Incr", Orch(levels), key) EXCEPT
                   !.fail = fail, !.err = r.err, !.rint = r.n, !.seq = LastOnly(levels)]
    /\ UNCHANGED <<now, closed>> /\ Idle

MultiDecrBy(levels, key, value, fail) ==
    LET r == OrchDecrBy(levels, data, key, value, now, fail) IN
    /\ Usable(levels) /\ r.n \in Counts
    /\ fail \subseteq LastCall(levels, "DecrBy")
    /\ data' = r.stores
    /\ wr' = Counted(levels, key, r.err)
    /\ last' = [Call("DecrBy", Orch(levels), key) EXCEPT
                   !.n = value, !.fail = fail, !.err = r.err, !.rint = r.n,
                   !.seq = LastOnly(levels)]
    /\ UNCHANGED <<now, closed>> /\ Idle

MultiDecr(levels, key, fail) ==
    LET r == OrchDecr(levels, data, key, now, fail) IN
    /\ Usable(levels) /\ r.n \in Counts
    /\ fail \subseteq LastCall(levels, "Decr")
    /\ data' = r.stores
    /\ wr' = Counted(levels, key, r.err)
    /\ last' = [Call("Decr", Orch(levels), key) EXCEPT
                   !.fail = fail, !.err = r.err, !.rint = r.n, !.seq = LastOnly(levels)]
    /\ UNCHANGED <<now, closed>> /\ Idle

MultiTTL(levels, key, fail) ==
    LET r == OrchTTL(levels, data, key, now, fail) IN
    /\ Usable(levels)
    /\ fail \subseteq LastCall(levels, "TTL")
    /\ last' = [Call("TTL", Orch(levels), key) EXCEPT
                   !.fail = fail, !.err = r.err, !.rint = r.d, !.seq = LastOnly(levels)]
    /\ UNCHANGED <<now, data, closed, wr>> /\ Idle

MultiSetNX(levels, key, v, ttl, fail) ==
    LET r == OrchSetNX(levels, data, key, v, ttl, now, fail) IN
    /\ Usable(levels)
    /\ fail \subseteq LastCall(levels, "SetNX")
                      \cup (IF r.ok THEN {<<levels[x], "Set">> : x \in 1..(Len(levels) - 1)}
                            ELSE {})
    /\ data' = r.stores
    /\ wr' = [i \in Tiers |->
                IF r.ok /\ ~Fails(fail, i, "Set")
                THEN [wr[i] EXCEPT ![key] = Write("store", ttl, ttl > 0)] ELSE wr[i]]
    /\ last' = [Call("SetNX", Orch(levels), key) EXCEPT
                   !.val = v, !.ttl = ttl, !.fail = fail, !.err = r.err, !.rbool = r.ok,
                   !.seq = IF r.ok THEN LastOnly(levels) \o SubSeq(levels, 1, Len(levels) - 1)
                           ELSE LastOnly(levels)]
    /\ UNCHANGED <<now, closed>> /\ Idle

\* Get on the orchestrator that has no level
EmptyGet(key, type) ==
    LET r == OrchGetOn(NoLevels, data, key, type, now, {}) IN
    /\ last' = [Call("Get", Empty, key) EXCEPT
                   !.dest = type, !.err = r.err, !.rval = r.val, !.hit = r.hit]
    /\ UNCHANGED <<now, data, closed, wr>> /\ Idle

(***************************************************************************)
(* SpecLast: the counters, TTL and SetNX through the orchestrator, over    *)
(* levels that callers also write directly, and Get after them.            *)
(***************************************************************************)
LastFailSets(op) == SUBSET LastCall(AllLevels, op)
NXFailSets == SUBSET ({<<LastTier, "SetNX">>} \cup {<<i, "Set">> : i \in 0..(LastTier - 1)})

NextLast ==
    \/ \E k \in HotKeys, n \in Counts, fail \in LastFailSets("IncrBy") :
          MultiIncrBy(AllLevels, k, n, fail)
    \/ \E k \in HotKeys, fail \in LastFailSets("Incr") : MultiIncr(AllLevels, k, fail)
    \/ \E k \in HotKeys, n \in {MaxCount}, fail \in LastFailSets("DecrBy") :
          MultiDecrBy(AllLevels, k, n, fail)
    \/ \E k \in HotKeys, fail \in LastFailSets("Decr") : MultiDecr(AllLevels, k, fail)
    \/ \E k \in HotKeys, fail \in LastFailSets("TTL") : MultiTTL(AllLevels, k, fail)
    \/ \E k \in HotKeys, v \in BatchVals, ttl \in BatchTTLs, fail \in NXFailSets :
          MultiSetNX(AllLevels, k, v, ttl, fail)
    \/ \E k \in HotKeys : MultiGet(k, "int64", {})
    \/ \E i \in Tiers, k \in HotKeys, ttl \in BatchTTLs : Set(i, k, Int64(MaxCount), ttl)
    \/ \E i \in Tiers, k \in HotKeys : Delete(i, k)
    \/ Tick

SpecLast == Init /\ [][NextLast]_vars

(***************************************************************************)
(* SpecEmpty: an orchestrator constructed with no level, beside stores     *)
(* that callers write directly.                                            *)
(***************************************************************************)
NextEmpty ==
    \/ \E k \in Keys, ty \in DestTypes : EmptyGet(k, ty)
    \/ \E k \in Keys, n \in Counts : MultiIncrBy(NoLevels, k, n, {})
    \/ \E k \in Keys : MultiIncr(NoLevels, k, {})
    \/ \E k \in Keys, n \in Counts : MultiDecrBy(NoLevels, k, n, {})
    \/ \E k \in Keys : MultiDecr(NoLevels, k, {})
    \/ \E k \in Keys : MultiTTL(NoLevels, k, {})
    \/ \E k \in Keys, v \in SetVals, ttl \in TTLs : MultiSetNX(NoLevels, k, v, ttl, {})
    \/ \E i \in Tiers, k \in HotKeys, v \in SetVals, ttl \in BatchTTLs : Set(i, k, v, ttl)
    \/ Tick

SpecEmpty == Init /\ [][NextEmpty]_vars

(***************************************************************************)
(* SpecMulti: reads through the orchestrator over levels that callers also *)
(* write directly.                                                         *)
(***************************************************************************)
MultiVals == {Int64(1), Int64(2), String(1)}
GetFailSets == SUBSET (Tiers \X {"Get", "TTL", "Set"})

NextMulti ==
    \/ \E k \in HotKeys, ty \in GetTypes, fail \in GetFailSets : MultiGet(k, ty, fail)
    \/ \E i \in Tiers, k \in HotKeys, v \in MultiVals, ttl \in TTLs : Set(i, k, v, ttl)
    \/ \E i \in Tiers, k \in HotKeys : Delete(i, k)
    \/ \E i \in Tiers : Sweep(i)
    \/ Tick

SpecMulti == Init /\ [][NextMulti]_vars

(***************************************************************************)
(* SpecFan: the writes the orchestrator fans out to every level.           *)
(***************************************************************************)
\* the batches written through the orchestrator
FanBatches == {m \in Batches : \A k \in Keys \ HotKeys : m[k] = Int64(1)}

NextFan ==
    \/ \E k \in HotKeys, v \in BatchVals, ttl \in BatchTTLs, fail \in FailSets("Set") :
          MultiSet(k, v, ttl, fail)
    \/ \E k \in HotKeys, fail \in FailSets("Delete") : MultiDelete(k, fail)
    \/ \E m \in FanBatches, fail \in FailSets("MSet") :
          \E seqs \in [Tiers -> Orders(BatchKeys(m))] : MultiMSet(m, MaxTTL, seqs, fail)
    \/ \E ks \in KeyLists, fail \in FailSets("MDelete") : MultiMDelete(ks, fail)
    \/ \E k \in HotKeys, fail \in FailSets("Expire") : MultiExpire(k, MaxTTL, fail)
    \/ \E fail \in FailSets("Close") : MultiClose(fail)

SpecFan == Init /\ [][NextFan]_vars

(***************************************************************************)
(* Goroutines calling the in-process store of level 0 concurrently.  A     *)
(* handler is run statement by statement: c.mu.Lock(), the statements of   *)
(* its body, the deferred c.mu.Unlock().  loc[p] is the call goroutine p   *)
(* is in, with the results it has computed so far; done lists the calls in *)
(* the order in which they returned.                                       *)
(***************************************************************************)
CounterOps == {"Incr", "IncrBy", "Decr", "DecrBy"}

\* what the call passes to IncrBy: Incr is IncrBy(1), Decr is DecrBy(1) and
\* DecrBy(n) is IncrBy(-n)
Delta(call) ==
    CASE call.op = "Incr" -> 1
      [] call.op = "IncrBy" -> call.n
      [] call.op = "Decr" -> 0 - 1
      [] call.op = "DecrBy" -> 0 - call.n

InFlight == {p \in Procs : pc[p] # "idle"}
Started == {done[i] : i \in 1..Len(done)} \cup {loc[p] : p \in InFlight}

\* the calls the goroutines make
ConcDeltas == {MaxCount}
ConcCalls(p) ==
    {[Call("SetNX", 0, k) EXCEPT !.val = Int64(p), !.ttl = ttl] :
        k \in HotKeys, ttl \in BatchTTLs}
    \cup {Call(op, 0, k) : op \in {"Incr", "Decr"}, k \in HotKeys}
    \cup {[Call(op, 0, k) EXCEPT !.n = n] :
            op \in {"IncrBy", "DecrBy"}, k \in HotKeys, n \in ConcDeltas}

Begin(p, call) ==
    /\ pc[p] = "idle"
    /\ Len(done) + Cardinality(InFlight) < MaxCalls
    /\ loc' = [loc EXCEPT ![p] = call]
    /\ pc' = [pc EXCEPT ![p] = "lock"]
    /\ UNCHANGED <<now, data, closed, wr, last, mu, done>>
    /\ UNCHANGED <<held, task, cleaner>> /\ Observe

\* c.mu.Lock()
Lock(p) ==
    /\ pc[p] = "lock"
    /\ mu.writer = 0 /\ mu.readers = {}
    /\ mu' = [mu EXCEPT !.writer = p]
    /\ pc' = [pc EXCEPT ![p] = CASE loc[p].op = "SetNX" -> "check"
                                  [] loc[p].op = "Set" -> "store"
                                  [] OTHER -> "read"]
    /\ UNCHANGED <<now, data, closed, wr, last, loc, done>>
    /\ UNCHANGED <<held, task, cleaner>> /\ Observe

\* mutant: the absence check is made under a lock released before the write
SetNXCheck_Unlocked(p) ==
    /\ pc[p] = "check"
    /\ LET item == data[loc[p].tier][loc[p].key] IN
       IF item # NoItem /\ ~isExpired(item, now)
       THEN /\ loc' = [loc EXCEPT ![p].rbool = FALSE, ![p].err = Nil]
            /\ pc' = [pc EXCEPT ![p] = "unlock"]
       ELSE /\ pc' = [pc EXCEPT ![p] = "write"]
            /\ UNCHANGED loc
    /\ mu' = [mu EXCEPT !.writer = 0]
    /\ UNCHANGED <<now, data, closed, wr, last, done>>
    /\ UNCHANGED <<held, task, cleaner>> /\ Observe

\* if item, ok := c.data[key]; ok && !item.isExpired() { return false, nil }
SetNXCheck(p) ==
    /\ pc[p] = "check"
    /\ LET item == data[loc[p].tier][loc[p].key] IN
       IF item # NoItem /\ ~isExpired(item, now)
       THEN /\ loc' = [loc EXCEPT ![p].rbool = FALSE, ![p].err = Nil]
            /\ pc' = [pc EXCEPT ![p] = "unlock"]
       ELSE /\ pc' = [pc EXCEPT ![p] = "write"]
            /\ UNCHANGED loc
    /\ UNCHANGED <<now, data, closed, wr, last, mu, done>>
    /\ UNCHANGED <<held, task, cleaner>> /\ Observe

\* json.Marshal(value), the new item and c.data[key] = item
SetNXWrite(p) ==
    /\ pc[p] = "write"
    /\ LET c == loc[p]
           m == Marshal(c.val)
       IN IF m.err # Nil
          THEN /\ loc' = [loc EXCEPT ![p].rbool = FALSE, ![p].err = m.err]
               /\ UNCHANGED <<data, wr>>
          ELSE /\ data' = [data EXCEPT ![c.tier][c.key] = newItem(m.doc, c.ttl, now)]
               /\ wr' = [wr EXCEPT ![c.tier][c.key] = Write("store", c.ttl, c.ttl > 0)]
               /\ loc' = [loc EXCEPT ![p].rbool = TRUE, ![p].err = Nil]
    /\ pc' = [pc EXCEPT ![p] = "unlock"]
    /\ UNCHANGED <<now, closed, last, mu, done>>
    /\ UNCHANGED <<held, task, cleaner>> /\ Observe

\* mutant: the counter is read under a lock released before the write
IncrByRead_Unlocked(p) ==
    /\ pc[p] = "read"
    /\ LET item == data[loc[p].tier][loc[p].key]
           dec == Unmarshal(item.value, "int64")
       IN loc' = [loc EXCEPT ![p].rint =
                     IF item # NoItem /\ ~isExpired(item, now) /\ dec.err = Nil
                     THEN dec.val.doc.a ELSE 0]
    /\ pc' = [pc EXCEPT ![p] = "add"]
    /\ mu' = [mu EXCEPT !.writer = 0]
    /\ UNCHANGED <<now, data, closed, wr, last, done>>
    /\ UNCHANGED <<held, task, cleaner>> /\ Observe

\* var current int64; if the item is there and live, json.Unmarshal into it
IncrByRead(p) ==
    /\ pc[p] = "read"
    /\ LET item == data[loc[p].tier][loc[p].key]
           dec == Unmarshal(item.value, "int64")
       IN loc' = [loc EXCEPT ![p].rint =
                     IF item # NoItem /\ ~isExpired(item, now) /\ dec.err = Nil
                     THEN dec.val.doc.a ELSE 0]
    /\ pc' = [pc EXCEPT ![p] = "add"]
    /\ UNCHANGED <<now, data, closed, wr, last, mu, done>>
    /\ UNCHANGED <<held, task, cleaner>> /\ Observe

\* current += value; c.data[key] = &cacheItem{value: data}; return current
IncrByWrite(p) ==
    /\ pc[p] = "add"
    /\ LET c == loc[p]
           current == c.rint + Delta(c)
       IN /\ data' = [data EXCEPT ![c.tier][c.key] =
                         cacheItem(Marshal(Int64(current)).doc, ZeroTime)]
          /\ wr' = [wr EXCEPT ![c.tier][c.key] = Write("IncrBy", 0, FALSE)]
          /\ loc' = [loc EXCEPT ![p].rint = current, ![p].err = Nil]
    /\ pc' = [pc EXCEPT ![p] = "unlock"]
    /\ UNCHANGED <<now, closed, last, mu, done>>
    /\ UNCHANGED <<held, task, cleaner>> /\ Observe

\* defer c.mu.Unlock(), and the return
Unlock(p) ==
    /\ pc[p] = "unlock"
    /\ mu' = [mu EXCEPT !.writer = 0]
    /\ done' = Append(done, loc[p])
    /\ loc' = [loc EXCEPT ![p] = NoCall]
    /\ pc' = [pc EXCEPT ![p] = "idle"]
    /\ UNCHANGED <<now, data, closed, wr, last>>
    /\ UNCHANGED <<held, task, cleaner>> /\ Observe

NextConc ==
    \E p \in Procs :
       \/ \E call \in ConcCalls(p) : Begin(p, call)
       \/ Lock(p)
       \/ SetNXCheck(p)
       \/ SetNXWrite(p)
       \/ IncrByRead(p)
       \/ IncrByWrite(p)
       \/ Unlock(p)

SpecConc == Init /\ [][NextConc]_vars

(***************************************************************************)
(* Goroutines reading and writing one key of the store of level 0 while    *)
(* the clock advances.  Get holds the read lock for the map lookup only    *)
(* and tests the expiration of the item it found afterwards; Set builds    *)
(* its item, expiration included, before it takes the lock.                *)
(***************************************************************************)
LinTTLs == 1..MaxTTL
LinCalls(p) ==
    {[Call("Get", 0, k) EXCEPT !.dest = "int64"] : k \in HotKeys}
    \cup {[Call("Set", 0, k) EXCEPT !.val = Int64(p), !.ttl = ttl] :
            k \in HotKeys, ttl \in LinTTLs}

BeginRW(p, call) ==
    /\ pc[p] = "idle"
    /\ Len(done) + Cardinality(InFlight) < MaxCalls
    /\ loc' = [loc EXCEPT ![p] = call]
    /\ pc' = [pc EXCEPT ![p] = IF call.op = "Get" THEN "rlock" ELSE "marshal"]
    /\ UNCHANGED <<now, data, closed, wr, last, mu, done>>
    /\ UNCHANGED <<held, task, cleaner>> /\ Observe

\* json.Marshal(value) and item := &cacheItem{...}, expiresAt from time.Now()
SetMake(p) ==
    /\ pc[p] = "marshal"
    /\ LET c == loc[p]
           m == Marshal(c.val)
       IN IF m.err # Nil
          THEN /\ done' = Append(done, [c EXCEPT !.err = m.err])
               /\ loc' = [loc EXCEPT ![p] = NoCall]
               /\ pc' = [pc EXCEPT ![p] = "idle"]
               /\ UNCHANGED held
          ELSE /\ held' = [held EXCEPT ![p] = newItem(m.doc, c.ttl, now)]
               /\ pc' = [pc EXCEPT ![p] = "lock"]
               /\ UNCHANGED <<loc, done>>
    /\ UNCHANGED <<now, data, closed, wr, last, mu>>
    /\ UNCHANGED <<task, cleaner>> /\ Observe

\* c.data[key] = item, under the lock
SetStore(p) ==
    /\ pc[p] = "store"
    /\ LET c == loc[p] IN
       /\ data' = [data EXCEPT ![c.tier][c.key] = held[p]]
       /\ wr' = [wr EXCEPT ![c.tier][c.key] =
                    [op |-> "store", ttl |-> c.ttl,
                     at |-> IF c.ttl > 0 THEN held[p].expiresAt - c.ttl ELSE 0]]
    /\ loc' = [loc EXCEPT ![p].err = Nil]
    /\ pc' = [pc EXCEPT ![p] = "unlock"]
    /\ UNCHANGED <<now, closed, last, mu, done>>
    /\ UNCHANGED <<held, task, cleaner>> /\ Observe

\* mutant: the read lock is granted while a writer holds the lock
RLock_NoWait(p) ==
    /\ pc[p] = "rlock"
    /\ mu' = [mu EXCEPT !.readers = @ \cup {p}]
    /\ pc' = [pc EXCEPT ![p] = "load"]
    /\ UNCHANGED <<now, data, closed, wr, last, loc, done>>
    /\ UNCHANGED <<held, task, cleaner>> /\ Observe

\* c.mu.RLock()
RLock(p) ==
    /\ pc[p] = "rlock"
    /\ mu.writer = 0
    /\ mu' = [mu EXCEPT !.readers = @ \cup {p}]
    /\ pc' = [pc EXCEPT ![p] = "load"]
    /\ UNCHANGED <<now, data, closed, wr, last, loc, done>>
    /\ UNCHANGED <<held, task, cleaner>> /\ Observe

\* item, ok := c.data[key]
GetLoad(p) ==
    /\ pc[p] = "load"
    /\ held' = [held EXCEPT ![p] = data[loc[p].tier][loc[p].key]]
    /\ pc' = [pc EXCEPT ![p] = "runlock"]
    /\ UNCHANGED <<now, data, closed, wr, last, mu, loc, done>>
    /\ UNCHANGED <<task, cleaner>> /\ Observe

\* c.mu.RUnlock()
RUnlock(p) ==
    /\ pc[p] = "runlock"
    /\ mu' = [mu EXCEPT !.readers = @ \ {p}]
    /\ pc' = [pc EXCEPT ![p] = "expired"]
    /\ UNCHANGED <<now, data, closed, wr, last, loc, done>>
    /\ UNCHANGED <<held, task, cleaner>> /\ Observe

\* if !ok || item.isExpired() { return NotFound }; return json.Unmarshal(...)
GetReturn(p) ==
    /\ pc[p] = "expired"
    /\ LET c == loc[p]
           r == IF held[p] = NoItem \/ isExpired(held[p], now)
                THEN [err |-> NotFoundError(c.key), val |-> NoVal]
                ELSE Unmarshal(held[p].value, c.dest)
       IN done' = Append(done, [c EXCEPT !.err = r.err, !.rval = r.val])
    /\ loc' = [loc EXCEPT ![p] = NoCall]
    /\ held' = [held EXCEPT ![p] = NoItem]
    /\ pc' = [pc EXCEPT ![p] = "idle"]
    /\ UNCHANGED <<now, data, closed, wr, last, mu>>
    /\ UNCHANGED <<task, cleaner>> /\ Observe

NextLin ==
    \/ \E p \in Procs :
          \/ \E call \in LinCalls(p) : BeginRW(p, call)
          \/ SetMake(p)
          \/ Lock(p)
          \/ SetStore(p)
          \/ Unlock(p)
          \/ RLock(p)
          \/ GetLoad(p)
          \/ RUnlock(p)
          \/ GetReturn(p)
    \/ Tick

SpecLin == Init /\ [][NextLin]_vars

(***************************************************************************)
(* The goroutines that run cleanup(): NewMemoryCache starts one, and each  *)
(* WithCleanupInterval option starts one more on the same ticker field and *)
(* the same stop channel.  Each waits in `select` for a tick or for the    *)
(* stop channel to be closed.                                              *)
(***************************************************************************)
\* a store right after NewMemoryCache(opts...): n goroutines run cleanup()
Started0(n) == [i \in Tasks |-> IF i <= n THEN "select" ELSE "none"]

InitSweep ==
    /\ now = StartTime
    /\ data = [t \in Tiers |-> EmptyStore]
    /\ closed = [t \in Tiers |-> FALSE]
    /\ wr = [t \in Tiers |-> NoWrites]
    /\ last = NoCall
    /\ mu = [writer |-> 0, readers |-> {}]
    /\ pc = [p \in Procs |-> "idle"]
    /\ loc = [p \in Procs |-> NoCall]
    /\ done = <<>>
    /\ held = [p \in Procs |-> NoItem]
    /\ lin = [p \in Procs |-> {}]
    /\ \E n \in Tasks : task = [t \in Tiers |-> Started0(n)]
    /\ cleaner = [t \in Tiers |-> NewTicker]

\* the running ticker sends a tick when its channel, of capacity 1, is empty
TickerFire(t) ==
    /\ cleaner[t].running /\ cleaner[t].c = 0
    /\ cleaner' = [cleaner EXCEPT ![t].c = 1]
    /\ last' = NoCall
    /\ UNCHANGED <<now, data, closed, wr, mu, pc, loc, done, held, task>> /\ Observe

\* case <-c.cleaner.C: one pass under the lock
TaskSweep(t, i) ==
    /\ task[t][i] = "select"
    /\ cleaner[t].c = 1
    /\ mu.writer = 0 /\ mu.readers = {}
    /\ cleaner' = [cleaner EXCEPT ![t].c = 0]
    /\ data' = [data EXCEPT ![t] = SweepPass(data[t], now)]
    /\ last' = [Call("sweep", t, 0) EXCEPT !.n = i]
    /\ UNCHANGED <<now, closed, wr, mu, pc, loc, done, held, task>> /\ Observe

\* mutant: the stop signal reaches one goroutine only
TaskStop_Once(t, i) ==
    /\ task[t][i] = "select"
    /\ closed[t]
    /\ \A j \in Tasks : task[t][j] # "done"
    /\ cleaner' = [cleaner EXCEPT ![t].running = FALSE]
    /\ task' = [task EXCEPT ![t][i] = "done"]
    /\ last' = [Call("return", t, 0) EXCEPT !.n = i]
    /\ UNCHANGED <<now, data, closed, wr, mu, pc, loc, done, held>> /\ Observe

\* case <-c.stop: c.cleaner.Stop(); return
TaskStop(t, i) ==
    /\ task[t][i] = "select"
    /\ closed[t]
    /\ cleaner' = [cleaner EXCEPT ![t].running = FALSE]
    /\ task' = [task EXCEPT ![t][i] = "done"]
    /\ last' = [Call("return", t, 0) EXCEPT !.n = i]
    /\ UNCHANGED <<now, data, closed, wr, mu, pc, loc, done, held>> /\ Observe

(***************************************************************************)
(* SpecSweep: one store, its sweep goroutines, callers that write entries  *)
(* with an expiration, and Close.  The Go scheduler runs every goroutine   *)
(* that can run and `select` takes a ready case at random, so a goroutine  *)
(* whose stop case stays ready takes it in the end: weak fairness of each  *)
(* TaskStop.                                                               *)
(***************************************************************************)
NextSweep ==
    \/ \E k \in HotKeys, ttl \in LinTTLs : Set(0, k, Int64(1), ttl)
    \/ Tick
    \/ TickerFire(0)
    \/ \E i \in Tasks : TaskSweep(0, i)
    \/ \E i \in Tasks : TaskStop(0, i)
    \/ Close(0)

SpecSweep ==
    InitSweep /\ [][NextSweep]_vars /\ \A i \in Tasks : WF_vars(TaskStop(0, i))

(***************************************************************************)
(* The probes of the orchestrator: Exists, MGet and Ping.                  *)
(***************************************************************************)
LevelExists(d, i, key, t, fail) ==
    IF Fails(fail, i, "Exists") THEN [err |-> BackendError(i), ok |-> FALSE]
    ELSE MemExists(d[i], key, t)

LevelMGet(d, i, keys, t, fail) ==
    IF Fails(fail, i, "MGet") THEN [err |-> BackendError(i), vals |-> NoMap]
    ELSE MemMGet(d[i], keys, t)

\* Ping of the in-process store returns nil; that of the network-backed one may fail
LevelPing(i, fail) == IF Fails(fail, i, "Ping") THEN BackendError(i) ELSE Nil

\* `if exists, err := level.Exists(ctx, key); err == nil && exists { return true, nil }`:
\* the first level that answers (true, nil), Multi when none does
RECURSIVE FirstExists(_, _, _, _, _)
FirstExists(d, key, t, fail, i) ==
    IF i > LastTier THEN Multi
    ELSE IF LevelExists(d, i, key, t, fail).err = Nil /\ LevelExists(d, i, key, t, fail).ok
    THEN i
    ELSE FirstExists(d, key, t, fail, i + 1)

\* mutant: the error of a level that failed is returned when no level has the key
OrchExists_Surface(d, key, t, fail) ==
    LET i == FirstExists(d, key, t, fail, 0) IN
    [err |-> IF i = Multi
             THEN LastErr([j \in Tiers |-> LevelExists(d, j, key, t, fail).err])
             ELSE Nil,
     ok |-> i # Multi, hit |-> i]

OrchExists(d, key, t, fail) ==
    LET i == FirstExists(d, key, t, fail, 0) IN
    [err |-> Nil, ok |-> i # Multi, hit |-> i]

\* mutant: every level is asked for all the keys, and the deepest answer is kept
RECURSIVE MGetFrom_AskAll(_, _, _, _, _, _, _, _)
MGetFrom_AskAll(d, keys, t, fail, i, remainingKeys, result, asked) ==
    IF i > LastTier
    THEN [err |-> Nil, vals |-> result, asked |-> asked]
    ELSE LET r == LevelMGet(d, i, keys, t, fail) IN
         MGetFrom_AskAll(d, keys, t, fail, i + 1, remainingKeys,
                         [k \in Keys |-> IF r.err = Nil /\ r.vals[k] # NoVal
                                         THEN r.vals[k] ELSE result[k]],
                         [asked EXCEPT ![i] = keys])

\* the loop `for _, level := range c.levels` of MGet from level i on;
\* asked[j]: the keys level j was asked for
RECURSIVE MGetFrom(_, _, _, _, _, _, _, _)
MGetFrom(d, keys, t, fail, i, remainingKeys, result, asked) ==
    IF i > LastTier \/ remainingKeys = {}
    THEN [err |-> Nil, vals |-> result, asked |-> asked]
    ELSE LET r == LevelMGet(d, i, remainingKeys, t, fail) IN
         IF r.err # Nil
         THEN MGetFrom(d, keys, t, fail, i + 1, remainingKeys, result,
                       [asked EXCEPT ![i] = remainingKeys])
         ELSE MGetFrom(d, keys, t, fail, i + 1,
                       {k \in remainingKeys : r.vals[k] = NoVal},
                       [k \in Keys |-> IF k \in remainingKeys /\ r.vals[k] # NoVal
                                       THEN r.vals[k] ELSE result[k]],
                       [asked EXCEPT ![i] = remainingKeys])

NoneAsked == [i \in Tiers |-> {}]

OrchMGet(d, keys, t, fail) == MGetFrom(d, keys, t, fail, 0, keys, NoMap, NoneAsked)

\* the first level whose Ping fails, Multi when none does
RECURSIVE FirstPingErr(_, _)
FirstPingErr(fail, i) ==
    IF i > LastTier THEN Multi
    ELSE IF LevelPing(i, fail) # Nil THEN i
    ELSE FirstPingErr(fail, i + 1)

\* mutant: every level is pinged and the last error is returned
OrchPing_Last(fail) ==
    [err |-> LastErr([i \in Tiers |-> LevelPing(i, fail)]), hit |-> Multi]

\* hit: the level whose error ended the loop, Multi when every level answered
OrchPing(fail) ==
    LET i == FirstPingErr(fail, 0) IN
    [err |-> IF i = Multi THEN Nil ELSE LevelPing(i, fail), hit |-> i]

MultiExists(key, fail) ==
    LET r == OrchExists(data, key, now, fail) IN
    /\ Open
    /\ last' = [Call("Exists", Multi, key) EXCEPT
                   !.fail = fail, !.err = r.err, !.rbool = r.ok, !.hit = r.hit,
                   !.seq = IF r.hit = Multi THEN AllLevels ELSE UpTo(r.hit)]
    /\ UNCHANGED <<now, data, closed, wr>> /\ Idle

MultiMGet(keys, fail) ==
    LET r == OrchMGet(data, keys, now, fail) IN
    /\ Open
    /\ last' = [Call("MGet", Multi, 0) EXCEPT
                   !.keys = keys, !.fail = fail, !.err = r.err, !.rmap = r.vals,
                   !.asked = r.asked]
    /\ UNCHANGED <<now, data, closed, wr>> /\ Idle

MultiPing(fail) ==
    LET r == OrchPing(fail) IN
    /\ Open
    /\ last' = [Call("Ping", Multi, 0) EXCEPT
                   !.fail = fail, !.err = r.err, !.hit = r.hit,
                   !.seq = IF r.hit = Multi THEN AllLevels ELSE UpTo(r.hit)]
    /\ UNCHANGED <<now, data, closed, wr>> /\ Idle

(***************************************************************************)
(* SpecProbe: Exists, MGet and Ping through the orchestrator, over levels  *)
(* that callers write directly; level i stores the value i + 1, so that    *)
(* a result tells the level it came from.                                  *)
(***************************************************************************)
ProbeTTLs(k) == IF k \in HotKeys THEN {0, 1} ELSE {0}

NextProbe ==
    \/ \E k \in HotKeys, fail \in FailSets("Exists") : MultiExists(k, fail)
    \/ \E ks \in KeyLists, fail \in FailSets("MGet") : MultiMGet(ks, fail)
    \/ \E fail \in FailSets("Ping") : MultiPing(fail)
    \/ \E i \in Tiers, k \in Keys : \E ttl \in ProbeTTLs(k) : Set(i, k, Int64(i + 1), ttl)
    \/ Tick

SpecProbe == Init /\ [][NextProbe]_vars

(***************************************************************************)
(* SpecShape: the deepest level holds a JSON object with two fields, and   *)
(* callers read it through the orchestrator into destinations of several   *)
(* shapes: a struct with both fields, a struct with the first field only,  *)
(* and interface{}.                                                        *)
(***************************************************************************)
ShapeVals == {StructAB(1, 2), StructAB(2, 1)}
ShapeTypes == {"structA", "structAB", "any"}

NextShape ==
    \/ \E k \in HotKeys, v \in ShapeVals, ttl \in BatchTTLs : Set(LastTier, k, v, ttl)
    \/ \E k \in HotKeys, ty \in ShapeTypes : MultiGet(k, ty, {})
    \/ \E k \in HotKeys : Delete(0, k)
    \/ Tick

SpecShape == Init /\ [][NextShape]_vars

(***************************************************************************)
(* SpecErr: callers classify errors with IsNotFound: the errors of the     *)
(* package, errors of other origin, and both wrapped up to MaxWrap times;  *)
(* and they read keys of an in-process store and of the orchestrator.      *)
(***************************************************************************)
BaseErrs ==
    {NotFoundError(k) : k \in Keys} \cup {BackendError(i) : i \in Tiers}
    \cup {ErrNotFound, RedisNil, JsonError, Lookalike}

RECURSIVE WrapN(_, _)
WrapN(err, n) == IF n = 0 THEN err ELSE Wrap(WrapN(err, n - 1))

Errs == {Nil} \cup {WrapN(e, n) : e \in BaseErrs, n \in 0..MaxWrap}

IsNotFoundCall(err) ==
    /\ last' = [Call("IsNotFound", Multi, 0) EXCEPT !.err = err, !.rbool = IsNotFound(err)]
    /\ UNCHANGED <<now, data, closed, wr>> /\ Idle

NextErr ==
    \/ \E e \in Errs : IsNotFoundCall(e)
    \/ \E k \in HotKeys, ty \in GetTypes : Get(0, k, ty)
    \/ \E k \in HotKeys, ty \in GetTypes, fail \in FailSets("Get") : MultiGet(k, ty, fail)
    \/ \E i \in Tiers, k \in HotKeys, v \in CounterVals : Set(i, k, v, 1)
    \/ Tick

SpecErr == Init /\ [][NextErr]_vars

(***************************************************************************)
(* SpecRyw: a counter key that callers set, count and read through the     *)
(* orchestrator only.                                                      *)
(***************************************************************************)
NextRyw ==
    \/ \E k \in HotKeys, ttl \in BatchTTLs : MultiSet(k, Int64(1), ttl, {})
    \/ \E k \in HotKeys, n \in 1..MaxCount : MultiIncrBy(AllLevels, k, n, {})
    \/ \E k \in HotKeys : MultiIncr(AllLevels, k, {})
    \/ \E k \in HotKeys, n \in 1..MaxCount : MultiDecrBy(AllLevels, k, n, {})
    \/ \E k \in HotKeys : MultiDecr(AllLevels, k, {})
    \/ \E k \in HotKeys : MultiGet(k, "int64", {})
    \/ \E k \in HotKeys : MultiDelete(k, {})
    \/ Tick

SpecRyw == Init /\ [][NextRyw]_vars

(***************************************************************************)
(* Close on a store that is closed already: close(c.stop) on a closed      *)
(* channel panics ("close of closed channel"), and nothing recovers it.    *)
(***************************************************************************)
Panic == [kind |-> "panic", arg |-> 0, wrap |-> 0]

\* Close(): close(c.stop); return nil
MemClose(c) ==
    IF c THEN [err |-> Panic, closed |-> TRUE] ELSE [err |-> Nil, closed |-> TRUE]

CloseAgain(t) ==
    LET r == MemClose(closed[t]) IN
    /\ closed[t]
    /\ closed' = [closed EXCEPT ![t] = r.closed]
    /\ last' = [Call("Close", t, 0) EXCEPT !.err = r.err]
    /\ UNCHANGED <<now, data, wr>> /\ Idle

\* the loop of multiLevelCache.Close from level i on, over stores of which
\* some are closed: the panic of a level ends the call
RECURSIVE CloseFrom(_, _, _, _)
CloseFrom(cl, fail, i, lastErr) ==
    IF i > LastTier THEN [err |-> lastErr, closed |-> cl, seq |-> AllLevels]
    ELSE IF Fails(fail, i, "Close") THEN CloseFrom(cl, fail, i + 1, BackendError(i))
    ELSE IF MemClose(cl[i]).err = Panic
    THEN [err |-> Panic, closed |-> cl, seq |-> UpTo(i)]
    ELSE CloseFrom([cl EXCEPT ![i] = TRUE], fail, i + 1, lastErr)

\* Close of an orchestrator one of whose levels has been closed before,
\* directly or by another orchestrator that holds it
MultiCloseAgain(fail) ==
    LET r == CloseFrom(closed, fail, 0, Nil) IN
    /\ ~Open
    /\ closed' = r.closed
    /\ last' = [Call("Close", Multi, 0) EXCEPT !.fail = fail, !.err = r.err, !.seq = r.seq]
    /\ UNCHANGED <<now, data, wr>> /\ Idle

(***************************************************************************)
(* SpecClose: stores that are written, and closed any number of times,     *)
(* directly and through orchestrators that hold them as levels.            *)
(***************************************************************************)
NextClose ==
    \/ \E i \in Tiers : Close(i)
    \/ \E i \in Tiers : CloseAgain(i)
    \/ MultiClose({})
    \/ MultiCloseAgain({})
    \/ \E i \in Tiers, k \in HotKeys, ttl \in BatchTTLs : Set(i, k, Int64(1), ttl)
    \/ Tick

SpecClose == Init /\ [][NextClose]_vars

(***************************************************************************)
(* SpecClean: the store of SpecSweep with entries that expire and entries  *)
(* that do not.  The runtime delivers a tick every interval while the      *)
(* ticker runs, and a goroutine in `select` with a tick waiting receives   *)
(* it: weak fairness of the ticker and of the sweep pass.                  *)
(***************************************************************************)
CleanTTLs == {0, 1}

NextClean ==
    \/ \E k \in Keys, ttl \in CleanTTLs : Set(0, k, Int64(1), ttl)
    \/ Tick
    \/ TickerFire(0)
    \/ \E i \in Tasks : TaskSweep(0, i)
    \/ \E i \in Tasks : TaskStop(0, i)
    \/ Close(0)

SpecClean ==
    /\ InitSweep /\ [][NextClean]_vars
    /\ WF_vars(TickerFire(0))
    /\ WF_vars(\E i \in Tasks : TaskSweep(0, i))
    /\ \A i \in Tasks : WF_vars(TaskStop(0, i))

(***************************************************************************)
(* Goroutines calling the orchestrator concurrently.  The orchestrator has *)
(* no lock of its own: a handler is run one call on a level at a time, and *)
(* each such call is atomic (the level's own lock).  loc[p].n is the index *)
(* of the loop the handler is in, loc[p].began the number of calls that    *)
(* had returned when the call started.                                     *)
(***************************************************************************)
\* len(c.levels) - 1
DeepestLevel == Cardinality(DOMAIN data) - 1

\* the handler returns c to its caller
Return(p, c) ==
    /\ done' = Append(done, c)
    /\ loc' = [loc EXCEPT ![p] = NoCall]
    /\ pc' = [pc EXCEPT ![p] = "idle"]

BeginMulti(p, call) ==
    /\ pc[p] = "idle"
    /\ Len(done) + Cardinality(InFlight) < MaxCalls
    /\ loc' = [loc EXCEPT ![p] = [call EXCEPT !.began = Len(done)]]
    /\ pc' = [pc EXCEPT ![p] = CASE call.op = "Get" -> "probe"
                                  [] call.op = "Set" -> "set"
                                  [] OTHER -> "delete"]
    /\ UNCHANGED <<now, data, closed, wr, last, mu, done>>
    /\ UNCHANGED <<held, task, cleaner>> /\ Observe

\* for i, level := range c.levels { if err := level.Get(ctx, key, value); err == nil {
GetProbe(p) ==
    /\ pc[p] = "probe"
    /\ LET c == loc[p]
           i == c.n
           r == LevelGet(data, i, c.key, c.dest, now, c.fail)
       IN IF r.err = Nil
          THEN IF i > 0
               THEN /\ loc' = [loc EXCEPT ![p] = [c EXCEPT !.hit = i, !.rval = r.val]]
                    /\ pc' = [pc EXCEPT ![p] = "ttl"]
                    /\ UNCHANGED done
               ELSE Return(p, [c EXCEPT !.hit = i, !.rval = r.val])
          ELSE IF i < DeepestLevel
               THEN /\ loc' = [loc EXCEPT ![p].n = i + 1]
                    /\ UNCHANGED <<pc, done>>
               ELSE Return(p, [c EXCEPT !.err = NotFoundError(c.key)])
    /\ UNCHANGED <<now, data, closed, wr, last, mu>>
    /\ UNCHANGED <<held, task, cleaner>> /\ Observe

\* ttl, _ := level.TTL(ctx, key); if ttl > 0 {
GetTTL(p) ==
    /\ pc[p] = "ttl"
    /\ LET c == loc[p]
           ttl == LevelTTL(data, c.hit, c.key, now, c.fail).d
       IN IF ttl > 0
          THEN /\ loc' = [loc EXCEPT ![p] = [c EXCEPT !.ttl = ttl, !.n = 0]]
               /\ pc' = [pc EXCEPT ![p] = "fill"]
               /\ UNCHANGED done
          ELSE Return(p, [c EXCEPT !.ttl = ttl])
    /\ UNCHANGED <<now, data, closed, wr, last, mu>>
    /\ UNCHANGED <<held, task, cleaner>> /\ Observe

\* mutant: the first level whose Set fails ends the backfill, and Get returns
\* that error
GetFill_Strict(p) ==
    /\ pc[p] = "fill"
    /\ LET c == loc[p]
           j == c.n
           r == LevelSet(data, j, c.key, c.rval, c.ttl, now, c.fail)
       IN /\ data' = [data EXCEPT ![j] = r.store]
          /\ wr' = IF r.err = Nil
                   THEN [wr EXCEPT ![j][c.key] = Write("store", c.ttl, TRUE)] ELSE wr
          /\ IF r.err # Nil
             THEN Return(p, [c EXCEPT !.err = r.err])
             ELSE IF j + 1 < c.hit
                  THEN /\ loc' = [loc EXCEPT ![p].n = j + 1]
                       /\ UNCHANGED <<pc, done>>
                  ELSE Return(p, c)
    /\ UNCHANGED <<now, closed, last, mu>>
    /\ UNCHANGED <<held, task, cleaner>> /\ Observe

\* for j := 0; j < i; j++ { _ = c.levels[j].Set(ctx, key, value, ttl) } ... return nil
GetFill(p) ==
    /\ pc[p] = "fill"
    /\ LET c == loc[p]
           j == c.n
           r == LevelSet(data, j, c.key, c.rval, c.ttl, now, c.fail)
       IN /\ data' = [data EXCEPT ![j] = r.store]
          /\ wr' = IF r.err = Nil
                   THEN [wr EXCEPT ![j][c.key] = Write("store", c.ttl, TRUE)] ELSE wr
          /\ IF j + 1 < c.hit
             THEN /\ loc' = [loc EXCEPT ![p].n = j + 1]
                  /\ UNCHANGED <<pc, done>>
             ELSE Return(p, c)
    /\ UNCHANGED <<now, closed, last, mu>>
    /\ UNCHANGED <<held, task, cleaner>> /\ Observe

\* for _, level := range c.levels { if err := level.Set(...); err != nil { lastErr = err } }
SetLevel(p) ==
    /\ pc[p] = "set"
    /\ LET c == loc[p]
           i == c.n
           r == LevelSet(data, i, c.key, c.val, c.ttl, now, c.fail)
           lastErr == IF r.err # Nil THEN r.err ELSE c.err
       IN /\ data' = [data EXCEPT ![i] = r.store]
          /\ wr' = IF r.err = Nil
                   THEN [wr EXCEPT ![i][c.key] = Write("store", c.ttl, c.ttl > 0)] ELSE wr
          /\ IF i < DeepestLevel
             THEN /\ loc' = [loc EXCEPT ![p] = [c EXCEPT !.n = i + 1, !.err = lastErr]]
                  /\ UNCHANGED <<pc, done>>
             ELSE Return(p, [c EXCEPT !.err = lastErr])
    /\ UNCHANGED <<now, closed, last, mu>>
    /\ UNCHANGED <<held, task, cleaner>> /\ Observe

\* for _, level := range c.levels { if err := level.Delete(...); err != nil { lastErr = err } }
DeleteLevel(p) ==
    /\ pc[p] = "delete"
    /\ LET c == loc[p]
           i == c.n
           r == LevelDelete(data, i, c.key, c.fail)
           lastErr == IF r.err # Nil THEN r.err ELSE c.err
       IN /\ data' = [data EXCEPT ![i] = r.store]
          /\ wr' = IF r.err = Nil
                   THEN [wr EXCEPT ![i][c.key] = Write("Delete", 0, FALSE)] ELSE wr
          /\ IF i < DeepestLevel
             THEN /\ loc' = [loc EXCEPT ![p] = [c EXCEPT !.n = i + 1, !.err = lastErr]]
                  /\ UNCHANGED <<pc, done>>
             ELSE Return(p, [c EXCEPT !.err = lastErr])
    /\ UNCHANGED <<now, closed, last, mu>>
    /\ UNCHANGED <<held, task, cleaner>> /\ Observe

\* the calls the goroutines make on the orchestrator: each goroutine stores a
\* value of its own
StepCalls(p) ==
    {[Call("Get", Multi, k) EXCEPT !.dest = "int64"] : k \in HotKeys}
    \cup {[Call("Set", Multi, k) EXCEPT !.val = Int64(p), !.ttl = ttl] :
            k \in HotKeys, ttl \in LinTTLs}
    \cup {Call("Delete", Multi, k) : k \in HotKeys}

NextStep ==
    \/ \E p \in Procs :
          \/ \E call \in StepCalls(p) : BeginMulti(p, call)
          \/ GetProbe(p)
          \/ GetTTL(p)
          \/ GetFill(p)
          \/ SetLevel(p)
          \/ DeleteLevel(p)
    \/ Tick

SpecStep == Init /\ [][NextStep]_vars

(***************************************************************************)
(* SpecDeep: an orchestrator over one level more than Tiers, so that a hit *)
(* on the deepest level leaves at least two shallower levels to fill.  The *)
(* deepest level is a shared store that is also written directly; one      *)
(* goroutine calls Get while Set calls on the shallower levels fail.       *)
(***************************************************************************)
DeepTiers == 0..NumTiers

InitDeep ==
    /\ now = StartTime
    /\ data = [t \in DeepTiers |-> EmptyStore]
    /\ closed = [t \in DeepTiers |-> FALSE]
    /\ wr = [t \in DeepTiers |-> NoWrites]
    /\ last = NoCall
    /\ mu = [writer |-> 0, readers |-> {}]
    /\ pc = [p \in Procs |-> "idle"]
    /\ loc = [p \in Procs |-> NoCall]
    /\ done = <<>>
    /\ held = [p \in Procs |-> NoItem]
    /\ lin = [p \in Procs |-> {}]
    /\ task = [t \in DeepTiers |-> [i \in Tasks |-> IF i = 1 THEN "select" ELSE "none"]]
    /\ cleaner = [t \in DeepTiers |-> NewTicker]

DeepFailSets == SUBSET {<<j, "Set">> : j \in 0..(NumTiers - 1)}
DeepCalls ==
    {[Call("Get", Multi, k) EXCEPT !.dest = "int64", !.fail = fail] :
        k \in HotKeys, fail \in DeepFailSets}

NextDeep ==
    \/ \E call \in DeepCalls : BeginMulti(1, call)
    \/ GetProbe(1)
    \/ GetTTL(1)
    \/ GetFill(1)
    \/ \E k \in HotKeys : Set(NumTiers, k, Int64(1), MaxTTL)
    \/ Tick

SpecDeep == InitDeep /\ [][NextDeep]_vars

(***************************************************************************)
(* What the claims speak of, read off the state alone.                     *)
(***************************************************************************)
\* the store of tier t holds a map entry for k whose expiration has passed
Lapsed(t, k) ==
    /\ data[t][k] # NoItem
    /\ data[t][k].expiresAt # ZeroTime
    /\ now > data[t][k].expiresAt

\* k is absent from tier t, or logically expired
Gone(t, k) == data[t][k] = NoItem \/ Lapsed(t, k)

Serializable(v) == v.type # "chan"

\* level i answers a direct Get(key) into `type` at the present instant
Holds(d, i, key, type) == MemGet(d[i], key, type, now).err = Nil

Lowest(S) == CHOOSE i \in S : \A j \in S : i <= j
Highest(S) == CHOOSE i \in S : \A j \in S : j <= i

(***************************************************************************)
(* C1: Get of the orchestrator returns the value of the lowest-index level *)
(* whose Get succeeds, the levels being probed in index order, and returns *)
(* a NotFound error (IsNotFound) exactly when no level yields a hit.       *)
(***************************************************************************)
C1_GetLowestHit ==
    [][(last'.op = "Get" /\ last'.tier = Multi) =>
          LET c == last'
              hits == {i \in Tiers : /\ <<i, "Get">> \notin c.fail
                                     /\ Holds(data, i, c.key, c.dest)}
          IN /\ IsNotFound(c.err) <=> hits = {}
             /\ hits = {} => c.hit = Multi /\ c.seq = AllLevels
             /\ hits # {} =>
                   /\ c.err = Nil
                   /\ c.hit = Lowest(hits)
                   /\ c.seq = UpTo(Lowest(hits))
                   /\ c.rval = MemGet(data[Lowest(hits)], c.key, c.dest, now).val]_vars

\* both levels hold the key with different values and Get returned that of
\* level 0
C1_Witness ==
    /\ last.op = "Get" /\ last.tier = Multi /\ last.err = Nil /\ last.hit = 0
    /\ Holds(data, LastTier, last.key, last.dest)
    /\ MemGet(data[LastTier], last.key, last.dest, now).val # last.rval

(***************************************************************************)
(* C2, as stated: after a Get of the orchestrator hits at level i > 0      *)
(* whose remaining TTL for the key is positive, every level 0..i-1 holds   *)
(* the key (a direct Get succeeds) with a positive TTL no greater than the *)
(* TTL the key was stored with in level i.                                 *)
(***************************************************************************)
C2_BackfillAlways ==
    [][(/\ last'.op = "Get" /\ last'.tier = Multi /\ last'.hit > 0
        /\ MemTTL(data[last'.hit], last'.key, now).d > 0) =>
          \A j \in 0..(last'.hit - 1) :
             /\ Holds(data', j, last'.key, last'.dest)
             /\ MemTTL(data'[j], last'.key, now').d > 0
             /\ MemTTL(data'[j], last'.key, now').d <= wr[last'.hit][last'.key].ttl]_vars

(***************************************************************************)
(* C2, amended: after a Get of the orchestrator hits at level i > 0 and    *)
(* the TTL query on level i succeeds with a positive duration, every level *)
(* 0..i-1 whose backfill Set succeeded holds the key (a direct Get         *)
(* succeeds, with the value returned) with a positive TTL no greater than  *)
(* the remaining TTL of level i, hence than the TTL the key was stored     *)
(* with there; a level whose backfill Set failed is left as it was.        *)
(***************************************************************************)
C2_BackfillBestEffort ==
    [][(/\ last'.op = "Get" /\ last'.tier = Multi /\ last'.hit > 0
        /\ <<last'.hit, "TTL">> \notin last'.fail
        /\ MemTTL(data[last'.hit], last'.key, now).d > 0) =>
          \A j \in 0..(last'.hit - 1) :
             IF <<j, "Set">> \in last'.fail
             THEN data'[j] = data[j]
             ELSE /\ Holds(data', j, last'.key, last'.dest)
                  /\ MemGet(data'[j], last'.key, last'.dest, now').val = last'.rval
                  /\ MemTTL(data'[j], last'.key, now').d > 0
                  /\ MemTTL(data'[j], last'.key, now').d
                        <= MemTTL(data[last'.hit], last'.key, now).d
                  /\ MemTTL(data[last'.hit], last'.key, now).d
                        <= wr[last'.hit][last'.key].ttl]_vars

\* a hit at the last level, a tick after the key was stored there, was
\* written back to level 0 with the remaining TTL
C2_Witness ==
    /\ last.op = "Get" /\ last.tier = Multi /\ last.hit = LastTier /\ last.fail = {}
    /\ last.ttl > 0 /\ last.ttl < wr[LastTier][last.key].ttl
    /\ Holds(data, 0, last.key, last.dest)
    /\ MemTTL(data[0], last.key, now).d = last.ttl

(***************************************************************************)
(* C3: Set, MSet, Delete, MDelete, Expire and Close of the orchestrator    *)
(* invoke the operation on every level in index order, also after a level  *)
(* returned an error; the call returns nil iff every level succeeded and   *)
(* otherwise the error of the highest-index failing level.  When all       *)
(* levels succeed, after Set/MSet every level holds the written keys and   *)
(* after Delete/MDelete no level holds them.                               *)
(***************************************************************************)
FanOps == {"Set", "MSet", "Delete", "MDelete", "Expire", "Close"}

\* the outcomes the call's operation can have when made directly on level i
Direct(c, i) ==
    CASE c.op = "Set" -> {MemSet(data[i], c.key, c.val, c.ttl, now)}
      [] c.op = "MSet" -> {MemMSet(data[i], c.items, c.ttl, now, seq) :
                              seq \in Orders(c.keys)}
      [] c.op = "Delete" -> {MemDelete(data[i], c.key)}
      [] c.op = "MDelete" -> {MemMDelete(data[i], c.keys)}
      [] c.op = "Expire" -> {MemExpire(data[i], c.key, c.ttl, now)}
      [] c.op = "Close" -> {[err |-> Nil, store |-> data[i]]}

C3_FanOut ==
    [][(last'.tier = Multi /\ last'.op \in FanOps) =>
          LET c == last'
              broken == {i \in Tiers : <<i, c.op>> \in c.fail}
              failing == broken \cup {i \in Tiers : \A r \in Direct(c, i) : r.err # Nil}
              written == IF c.op \in {"Set", "Delete"} THEN {c.key}
                         ELSE IF c.op \in {"MSet", "MDelete"} THEN c.keys ELSE {}
          IN /\ c.seq = AllLevels
             /\ \A i \in broken : data'[i] = data[i] /\ closed'[i] = closed[i]
             /\ \A i \in Tiers \ broken :
                   /\ \E r \in Direct(c, i) : data'[i] = r.store
                   /\ c.op = "Close" => closed'[i]
             /\ c.err = Nil <=> failing = {}
             /\ failing # {} =>
                   c.err = IF Highest(failing) \in broken
                           THEN BackendError(Highest(failing))
                           ELSE (CHOOSE r \in Direct(c, Highest(failing)) : TRUE).err
             /\ (failing = {} /\ c.op \in {"Set", "MSet"}) =>
                   \A i \in Tiers, k \in written : MemExists(data'[i], k, now').ok
             /\ (failing = {} /\ c.op \in {"Delete", "MDelete"}) =>
                   \A i \in Tiers, k \in written : data'[i][k] = NoItem]_vars

\* level 0 failed a Set, the last level was written all the same and the
\* caller got the error of level 0
C3_Witness ==
    /\ last.op = "Set" /\ last.tier = Multi /\ last.fail = {<<0, "Set">>}
    /\ last.err = BackendError(0)
    /\ data[0][last.key] = NoItem
    /\ MemExists(data[LastTier], last.key, now).ok

(***************************************************************************)
(* C4: in the in-process store, a Get(k) issued right after a successful   *)
(* Set(k, v, ttl) with ttl > 0 returns v, and a Get(k) issued when more    *)
(* than ttl has elapsed since the write that stored k with ttl > 0 (no     *)
(* write to k in between) returns NotFound.                                *)
(***************************************************************************)
C4_SetGetExpires ==
    [][/\ (/\ last.op = "Set" /\ last.err = Nil /\ last.ttl > 0
           /\ last'.op = "Get" /\ last'.tier = last.tier /\ last'.key = last.key
           /\ last'.dest = last.val.type)
          => (last'.err = Nil /\ last'.rval = last.val)
       /\ (/\ last'.op = "Get"
           /\ wr[last'.tier][last'.key].op = "store"
           /\ wr[last'.tier][last'.key].ttl > 0
           /\ now > wr[last'.tier][last'.key].at + wr[last'.tier][last'.key].ttl)
          => IsNotFound(last'.err)]_vars

\* a Get found the entry of an elapsed Set still in the map and reported NotFound
C4_Witness ==
    /\ last.op = "Get" /\ last.tier = 0
    /\ wr[0][last.key].op = "store" /\ wr[0][last.key].ttl > 0
    /\ now > wr[0][last.key].at + wr[0][last.key].ttl
    /\ data[0][last.key] # NoItem
    /\ IsNotFound(last.err)

(***************************************************************************)
(* C5: Get, Exists, MGet and TTL of the in-process store answer for an     *)
(* entry whose expiration has passed as for an absent key (NotFound,       *)
(* false, not in the map, -2), swept or not.                               *)
(***************************************************************************)
C5_ExpiredReadsAbsent ==
    /\ (last.op = "Get" /\ last.tier \in Tiers /\ Lapsed(last.tier, last.key))
          => IsNotFound(last.err)
    /\ (last.op = "Exists" /\ last.tier \in Tiers /\ Lapsed(last.tier, last.key))
          => (last.rbool = FALSE /\ last.err = Nil)
    /\ (last.op = "MGet" /\ last.tier \in Tiers)
          => (last.err = Nil
              /\ \A k \in last.keys : Lapsed(last.tier, k) => last.rmap[k] = NoVal)
    /\ (last.op = "TTL" /\ last.tier \in Tiers /\ Lapsed(last.tier, last.key))
          => (last.rint = -2 /\ last.err = Nil)

\* TTL answered -2 for an expired entry the sweep has not removed
C5_Witness ==
    /\ last.op = "TTL" /\ last.tier = 0
    /\ Lapsed(0, last.key)
    /\ last.rint = -2

(***************************************************************************)
(* C6: SetNX(k, v, ttl) of the in-process store, for a serializable v,     *)
(* returns true and stores v with that ttl iff k is absent or logically    *)
(* expired at the call; otherwise it returns (false, nil) and leaves the   *)
(* store as it was.                                                        *)
(***************************************************************************)
C6_SetNX ==
    [][(last'.op = "SetNX" /\ last'.tier \in Tiers /\ Serializable(last'.val)) =>
         LET t == last'.tier
             k == last'.key
         IN IF Gone(t, k)
            THEN /\ last'.rbool = TRUE /\ last'.err = Nil
                 /\ data'[t][k].value = last'.val.doc
                 /\ data'[t][k].expiresAt =
                       (IF last'.ttl > 0 THEN now + last'.ttl ELSE ZeroTime)
                 /\ \A j \in Keys \ {k} : data'[t][j] = data[t][j]
            ELSE /\ last'.rbool = FALSE /\ last'.err = Nil
                 /\ data' = data]_vars

\* a second SetNX with another value returned false and the first value stayed
C6_Witness ==
    /\ last.op = "SetNX" /\ last.tier = 0
    /\ last.rbool = FALSE /\ last.err = Nil
    /\ Serializable(last.val)
    /\ data[0][last.key].value # last.val.doc
    /\ wr[0][last.key].op = "store"

(***************************************************************************)
(* C7: when goroutines call SetNX concurrently on a key that is absent,    *)
(* with no other call on the store and no expiry, exactly one call returns *)
(* true and the entry stored is that call's; from its absence check to its *)
(* write a SetNX holds the lock.                                           *)
(***************************************************************************)
C7_SetNXOneWinner ==
    (\A c \in Started : c.op = "SetNX") =>
       /\ \A p \in Procs : pc[p] \in {"check", "write", "unlock"} => mu.writer = p
       /\ done # <<>> =>
             \E i \in 1..Len(done) :
                /\ done[i].rbool /\ done[i].err = Nil
                /\ \A j \in 1..Len(done) : done[j].rbool => j = i
                /\ data[done[i].tier][done[i].key].value = Marshal(done[i].val).doc
                /\ wr[done[i].tier][done[i].key].ttl = done[i].ttl

\* two goroutines were in SetNX on the absent key at once: one has returned
\* true, the other saw the entry and is about to return false
C7_Witness ==
    /\ Len(done) = 1 /\ done[1].op = "SetNX" /\ done[1].rbool
    /\ \E p \in Procs :
          /\ pc[p] = "unlock" /\ loc[p].op = "SetNX" /\ ~loc[p].rbool
          /\ loc[p].val # done[1].val
          /\ data[loc[p].tier][loc[p].key].value = Marshal(done[1].val).doc

(***************************************************************************)
(* C8: IncrBy(k, n) of the in-process store returns old + n and stores it, *)
(* old being the integer k holds, or 0 when k is absent or expired; Incr   *)
(* adds 1, Decr adds -1 and DecrBy(k, n) adds -n.                          *)
(***************************************************************************)
C8_IncrBy ==
    [][(/\ last'.op \in CounterOps /\ last'.tier \in Tiers
        /\ (Gone(last'.tier, last'.key) \/ data[last'.tier][last'.key].value.kind = "num")) =>
         LET t == last'.tier
             k == last'.key
             old == IF Gone(t, k) THEN 0 ELSE data[t][k].value.a
         IN /\ last'.err = Nil
            /\ last'.rint = old + Delta(last')
            /\ data'[t][k].value = Num(old + Delta(last'))
            /\ \A j \in Keys \ {k} : data'[t][j] = data[t][j]]_vars

\* the second Incr on a fresh key returned 2
C8_Witness ==
    /\ last.op = "Incr" /\ last.tier = 0
    /\ last.rint = 2
    /\ data[0][last.key].value = Num(2)

(***************************************************************************)
(* C9: concurrent Incr/IncrBy/Decr/DecrBy calls on one key of an           *)
(* in-process store lose no update: on a fresh key, the values returned    *)
(* are the partial sums of the deltas in the order the calls returned, and *)
(* once all calls have returned the stored value is the sum of the deltas. *)
(***************************************************************************)
RECURSIVE SumDeltas(_, _)
SumDeltas(calls, i) == IF i = 0 THEN 0 ELSE SumDeltas(calls, i - 1) + Delta(calls[i])

C9_NoLostUpdate ==
    (\A c \in Started : c.op \in CounterOps) =>
       /\ \A i \in 1..Len(done) : done[i].err = Nil /\ done[i].rint = SumDeltas(done, i)
       /\ (InFlight = {} /\ done # <<>>) =>
             data[done[1].tier][done[1].key].value = Num(SumDeltas(done, Len(done)))

\* every call of the run was a counter call by one of two goroutines that
\* were in IncrBy at once, and all have returned
C9_Witness ==
    /\ Len(done) = MaxCalls /\ InFlight = {}
    /\ \A i \in 1..Len(done) : done[i].op \in CounterOps
    /\ done[Len(done)].rint = SumDeltas(done, Len(done))
    /\ done[Len(done)].rint # 0

(***************************************************************************)
(* C10: Incr, IncrBy, Decr and DecrBy of the in-process store on a present *)
(* key that has an expiration leave that expiration as it was.             *)
(***************************************************************************)
C10_IncrKeepsExpiration ==
    [][(/\ last'.op \in CounterOps /\ last'.tier \in Tiers
        /\ ~Gone(last'.tier, last'.key)
        /\ data[last'.tier][last'.key].expiresAt # ZeroTime) =>
         data'[last'.tier][last'.key].expiresAt = data[last'.tier][last'.key].expiresAt]_vars

(***************************************************************************)
(* C11: concurrent operations on one key of an in-process store are        *)
(* linearizable with respect to the clock: a Get returns what a Get run at *)
(* one instant between its call and its return would have returned; so it  *)
(* never returns NotFound when the key was present and unexpired at every  *)
(* instant of the call.                                                    *)
(***************************************************************************)
C11_GetLinearizable ==
    [][\A p \in Procs :
          (pc[p] = "expired" /\ pc'[p] = "idle") =>
             [err |-> done'[Len(done')].err, val |-> done'[Len(done')].rval] \in lin[p]]_vars

(***************************************************************************)
(* C12: under any interleaving of concurrent Set and Get calls on one key  *)
(* no call crashes (the map is never read while it is written) and every   *)
(* Get returns NotFound or exactly the value passed to a Set that has      *)
(* started.                                                                *)
(***************************************************************************)
C12_NoTornValue ==
    /\ ~(mu.writer # 0 /\ mu.readers # {})
    /\ \A p \in Procs : pc[p] \in {"load", "runlock"} => p \in mu.readers
    /\ \A p \in Procs : pc[p] = "store" => mu.writer = p
    /\ \A i \in 1..Len(done) :
          done[i].op = "Get" =>
             \/ IsNotFound(done[i].err)
             \/ /\ done[i].err = Nil
                /\ \E c \in Started : c.op = "Set" /\ c.val = done[i].rval

\* a Get returned the value of a Set that has stored it and not yet returned
C12_Witness ==
    \E i \in 1..Len(done), p \in Procs :
       /\ done[i].op = "Get" /\ done[i].err = Nil
       /\ pc[p] = "unlock" /\ loc[p].op = "Set" /\ loc[p].val = done[i].rval


(***************************************************************************)
(* C13: Incr, IncrBy, Decr, DecrBy and TTL of the orchestrator invoke the  *)
(* last level only and return its result unchanged; no other level is read *)
(* or modified.  After IncrBy(k, n) on a key no level holds, the result is *)
(* n and only the last level holds k.                                      *)
(***************************************************************************)
C13_LastLevelOnly ==
    [][(last'.tier = Multi /\ last'.op \in CounterOps \cup {"TTL"}) =>
          LET c == last'
              broken == <<LastTier, c.op>> \in c.fail
              r == IF c.op = "TTL"
                   THEN [err |-> MemTTL(data[LastTier], c.key, now).err,
                         n |-> MemTTL(data[LastTier], c.key, now).d,
                         store |-> data[LastTier]]
                   ELSE MemIncrBy(data[LastTier], c.key, Delta(c), now)
          IN /\ c.seq = <<LastTier>>
             /\ \A i \in Tiers \ {LastTier} : data'[i] = data[i]
             /\ IF broken
                THEN c.err = BackendError(LastTier) /\ data' = data
                ELSE c.err = r.err /\ c.rint = r.n /\ data'[LastTier] = r.store
             /\ (c.op = "IncrBy" /\ ~broken /\ \A i \in Tiers : data[i][c.key] = NoItem) =>
                   /\ c.rint = c.n
                   /\ \A i \in Tiers : data'[i][c.key] # NoItem <=> i = LastTier]_vars

\* IncrBy(k, MaxCount) through the orchestrator returned MaxCount and the
\* counter is in the last level alone
C13_Witness ==
    /\ last.op = "IncrBy" /\ last.tier = Multi /\ last.err = Nil
    /\ last.n = MaxCount /\ last.rint = MaxCount
    /\ data[LastTier][last.key].value = Num(MaxCount)
    /\ \A i \in 0..(LastTier - 1) : data[i][last.key] = NoItem

(***************************************************************************)
(* C14, as stated: after IncrBy of the orchestrator on a fresh counter the *)
(* key is in the last level only, and the Get of the orchestrator that     *)
(* follows triggers backfill: afterwards the first level holds the key.    *)
(***************************************************************************)
C14_GetBackfillsCounter ==
    [][(/\ last.op = "IncrBy" /\ last.tier = Multi /\ last.err = Nil
        /\ last.rint = last.n
        /\ \A i \in 0..(LastTier - 1) : data[i][last.key] = NoItem
        /\ last'.op = "Get" /\ last'.tier = Multi /\ last'.key = last.key) =>
          \A i \in 0..(LastTier - 1) : MemExists(data'[i], last.key, now').ok]_vars

(***************************************************************************)
(* C14, amended: after IncrBy of the orchestrator on a key no level holds, *)
(* the key is in the last level only, and a Get of the orchestrator does   *)
(* not change that: a counter written by the last level has no expiration  *)
(* (TTL -1), so Get returns its value from the last level, writes no level *)
(* and the earlier levels still do not hold the key.                       *)
(***************************************************************************)
C14_CounterNotBackfilled ==
    [][/\ (/\ last'.op = "IncrBy" /\ last'.tier = Multi /\ last'.err = Nil
           /\ \A i \in Tiers : data[i][last'.key] = NoItem) =>
             \A i \in Tiers : data'[i][last'.key] # NoItem <=> i = LastTier
       /\ (/\ last'.op = "Get" /\ last'.tier = Multi
           /\ wr[LastTier][last'.key].op = "IncrBy"
           /\ \A i \in 0..(LastTier - 1) : Gone(i, last'.key)) =>
             /\ last'.err = Nil /\ last'.hit = LastTier
             /\ last'.rval.doc = data[LastTier][last'.key].value
             /\ MemTTL(data[LastTier], last'.key, now).d = 0 - 1
             /\ data' = data
             /\ \A i \in 0..(LastTier - 1) : ~MemExists(data'[i], last'.key, now').ok]_vars

\* Get served the counter from the last level and level 0 stayed without it
C14_Witness ==
    /\ last.op = "Get" /\ last.tier = Multi /\ last.err = Nil /\ last.hit = LastTier
    /\ wr[LastTier][last.key].op = "IncrBy"
    /\ last.rval = Int64(MaxCount)
    /\ data[0][last.key] = NoItem

(***************************************************************************)
(* C15, as stated: SetNX of the orchestrator decides on the last level's   *)
(* SetNX alone; if that returns true the value is written with the same    *)
(* ttl to every earlier level and (true, nil) is returned, so all levels   *)
(* hold the key; if it returns false or an error, no earlier level is      *)
(* modified and false is returned, with the error if any.                  *)
(***************************************************************************)
NXDecision(c) ==
    IF <<LastTier, "SetNX">> \in c.fail
    THEN [err |-> BackendError(LastTier), ok |-> FALSE, store |-> data[LastTier]]
    ELSE MemSetNX(data[LastTier], c.key, c.val, c.ttl, now)

C15_SetNXAllHold ==
    [][(last'.op = "SetNX" /\ last'.tier = Multi) =>
          LET c == last'
              r == NXDecision(c)
          IN /\ c.err = r.err /\ c.rbool = r.ok /\ data'[LastTier] = r.store
             /\ r.ok => \A i \in Tiers :
                           /\ MemExists(data'[i], c.key, now').ok
                           /\ data'[i][c.key] = newItem(Marshal(c.val).doc, c.ttl, now)
             /\ ~r.ok => \A i \in Tiers \ {LastTier} : data'[i] = data[i]]_vars

(***************************************************************************)
(* C15, amended: as stated, except that after a true decision the levels   *)
(* that hold the key are the last level and every earlier level whose Set  *)
(* succeeded; an earlier level whose Set failed is left as it was, and     *)
(* (true, nil) is returned all the same.                                   *)
(***************************************************************************)
C15_SetNXBestEffort ==
    [][(last'.op = "SetNX" /\ last'.tier = Multi) =>
          LET c == last'
              r == NXDecision(c)
          IN /\ c.err = r.err /\ c.rbool = r.ok /\ data'[LastTier] = r.store
             /\ r.ok => \A i \in Tiers :
                           IF <<i, "Set">> \in c.fail
                           THEN data'[i] = data[i]
                           ELSE /\ MemExists(data'[i], c.key, now').ok
                                /\ data'[i][c.key] = newItem(Marshal(c.val).doc, c.ttl, now)
             /\ ~r.ok => \A i \in Tiers \ {LastTier} : data'[i] = data[i]]_vars

\* the last level decided true and every level holds the value, level 0 with
\* the ttl of the call
C15_Witness ==
    /\ last.op = "SetNX" /\ last.tier = Multi /\ last.rbool /\ last.fail = {}
    /\ wr[0][last.key].op = "store" /\ wr[0][last.key].ttl = last.ttl
    /\ \A i \in Tiers : data[i][last.key].value = Marshal(last.val).doc
    /\ last.val # Int64(MaxCount)

(***************************************************************************)
(* C16: an orchestrator constructed with no level answers without failing  *)
(* and without state: Get returns NotFound, Incr/IncrBy/Decr/DecrBy return *)
(* (0, nil), SetNX returns (false, nil) and TTL returns (-2, nil), for     *)
(* every key and after any calls.                                          *)
(***************************************************************************)
C16_NoLevels ==
    [][last'.tier = Empty =>
          /\ data' = data /\ closed' = closed /\ last'.seq = <<>>
          /\ last'.op = "Get" => IsNotFound(last'.err)
          /\ last'.op \in CounterOps => (last'.rint = 0 /\ last'.err = Nil)
          /\ last'.op = "SetNX" => (last'.rbool = FALSE /\ last'.err = Nil)
          /\ last'.op = "TTL" => (last'.rint = 0 - 2 /\ last'.err = Nil)]_vars

\* TTL answered -2 for a key that a store beside the orchestrator holds
C16_Witness ==
    /\ last.tier = Empty /\ last.op = "TTL" /\ last.rint = 0 - 2 /\ last.err = Nil
    /\ data[0][last.key] # NoItem

(***************************************************************************)
(* C17: TTL of the in-process store returns -2 when the key was never set, *)
(* was deleted or has expired; -1 when the key is present and was stored   *)
(* with ttl <= 0; and, for a key stored with ttl > 0 that has not expired, *)
(* a duration d with 0 < d <= ttl.                                         *)
(***************************************************************************)
C17_TTLSentinels ==
    [][(last'.op = "TTL" /\ last'.tier \in Tiers) =>
          LET t == last'.tier
              k == last'.key
              stored == ~Gone(t, k) /\ wr[t][k].op = "store"
          IN /\ last'.err = Nil
             /\ Gone(t, k) => last'.rint = 0 - 2
             /\ (stored /\ wr[t][k].ttl <= 0) => last'.rint = 0 - 1
             /\ (stored /\ wr[t][k].ttl > 0) =>
                   (0 < last'.rint /\ last'.rint <= wr[t][k].ttl)]_vars

(***************************************************************************)
(* C18: Expire(k, ttl) of the in-process store on a key that is absent -   *)
(* never set, deleted, or logically expired, swept or not - returns nil    *)
(* and is a no-op: the key stays absent, a following Get returns NotFound  *)
(* and Exists is false.                                                    *)
(***************************************************************************)
C18_ExpireAbsentNoop ==
    [][(last'.op = "Expire" /\ last'.tier \in Tiers /\ Gone(last'.tier, last'.key)) =>
          /\ last'.err = Nil
          /\ IsNotFound(MemGet(data'[last'.tier], last'.key, "any", now').err)
          /\ ~MemExists(data'[last'.tier], last'.key, now').ok]_vars

(***************************************************************************)
(* C19: the results of the in-process store never depend on sweep timing:  *)
(* in every reachable state, every operation returns the same on the store *)
(* as it is and on the store a sweep pass has just cleaned, and leaves     *)
(* stores that a sweep pass makes equal.                                   *)
(***************************************************************************)
Swept(s) == SweepPass(s, now)
Outcome(r) == [r EXCEPT !.store = Swept(r.store)]

C19_SweepInvisible ==
    LET s == data[0]
        z == Swept(data[0])
    IN /\ \A k \in Keys :
             /\ \A ty \in GetTypes : MemGet(s, k, ty, now) = MemGet(z, k, ty, now)
             /\ MemExists(s, k, now) = MemExists(z, k, now)
             /\ MemTTL(s, k, now) = MemTTL(z, k, now)
             /\ Outcome(MemDelete(s, k)) = Outcome(MemDelete(z, k))
             /\ \A v \in SetVals, ttl \in TTLs :
                   /\ Outcome(MemSet(s, k, v, ttl, now)) = Outcome(MemSet(z, k, v, ttl, now))
                   /\ Outcome(MemSetNX(s, k, v, ttl, now)) = Outcome(MemSetNX(z, k, v, ttl, now))
             /\ \A n \in Counts :
                   Outcome(MemIncrBy(s, k, n, now)) = Outcome(MemIncrBy(z, k, n, now))
             /\ \A ttl \in TTLs :
                   Outcome(MemExpire(s, k, ttl, now)) = Outcome(MemExpire(z, k, ttl, now))
       /\ \A ks \in KeyLists :
             /\ MemMGet(s, ks, now) = MemMGet(z, ks, now)
             /\ Outcome(MemMDelete(s, ks)) = Outcome(MemMDelete(z, ks))
       /\ \A m \in Batches, ttl \in BatchTTLs :
             \A seq \in Orders(BatchKeys(m)) :
                Outcome(MemMSet(s, m, ttl, now, seq)) = Outcome(MemMSet(z, m, ttl, now, seq))

(***************************************************************************)
(* C20: after Close of an in-process store, every goroutine that runs      *)
(* cleanup() for it, the one started by WithCleanupInterval included,      *)
(* terminates in the end under fair scheduling, and a goroutine that has   *)
(* terminated stays so and makes no sweep pass.                            *)
(***************************************************************************)
C20_SweepTasksTerminate ==
    /\ closed[0] ~> (\A i \in Tasks : task[0][i] # "select")
    /\ [][/\ \A i \in Tasks : task[0][i] = "done" => task'[0][i] = "done"
          /\ (cleaner[0].c = 1 /\ cleaner'[0].c = 0) =>
                (last'.op = "sweep" /\ task[0][last'.n] = "select")]_vars

\* the store was built with WithCleanupInterval, it is closed, both of its
\* goroutines have returned and the ticker is stopped
C20_Witness ==
    /\ closed[0]
    /\ \A i \in Tasks : task[0][i] = "done"
    /\ ~cleaner[0].running

(***************************************************************************)
(* C21: Exists of the orchestrator returns (true, nil) iff at least one    *)
(* level answers (true, nil) for the key, and stops at the first such      *)
(* level; the errors of the levels are not surfaced, and the result is     *)
(* (false, nil) when no level reports the key.                             *)
(***************************************************************************)
C21_ExistsAny ==
    (last.op = "Exists" /\ last.tier = Multi) =>
        LET yes == {i \in Tiers : <<i, "Exists">> \notin last.fail /\ ~Gone(i, last.key)}
        IN /\ last.err = Nil
           /\ last.rbool <=> (yes # {})
           /\ last.seq = IF yes = {} THEN AllLevels ELSE UpTo(Lowest(yes))

\* the first level holds the key but its Exists failed; the second level
\* answered true, and the orchestrator returned (true, nil)
C21_Witness ==
    /\ last.op = "Exists" /\ last.tier = Multi
    /\ last.fail = {<<0, "Exists">>}
    /\ ~Gone(0, last.key) /\ ~Gone(1, last.key)
    /\ last.rbool /\ last.err = Nil
    /\ last.seq = UpTo(1)

(***************************************************************************)
(* C22: MGet of the orchestrator walks the levels in order and asks each   *)
(* level only for the keys that no shallower level resolved; the map it    *)
(* returns holds exactly the requested keys that some level whose MGet did *)
(* not fail has, each with the value of the shallowest such level; the     *)
(* error is nil and no level is written.                                   *)
(***************************************************************************)
C22_MGetShallowest ==
    /\ [](( last.op = "MGet" /\ last.tier = Multi) =>
            LET has(i, k) == <<i, "MGet">> \notin last.fail /\ ~Gone(i, k)
                src(k) == {i \in Tiers : has(i, k)}
            IN /\ last.err = Nil
               /\ \A k \in Keys :
                     last.rmap[k] = IF k \in last.keys /\ src(k) # {}
                                    THEN GoVal("any", data[Lowest(src(k))][k].value)
                                    ELSE NoVal
               /\ \A i \in Tiers :
                     last.asked[i] = {k \in last.keys : \A j \in 0..(i - 1) : ~has(j, k)})
    /\ [][(last'.op = "MGet" /\ last'.tier = Multi) => data' = data]_vars

\* both keys were requested; the first level had only the second key, so the
\* second level was asked for the first key alone and supplied it
C22_Witness ==
    /\ last.op = "MGet" /\ last.tier = Multi
    /\ last.keys = Keys /\ last.fail = {}
    /\ Gone(0, 1) /\ ~Gone(0, 2) /\ ~Gone(1, 1) /\ ~Gone(1, 2)
    /\ last.asked[1] = {1}
    /\ last.rmap[1] = GoVal("any", Num(2))
    /\ last.rmap[2] = GoVal("any", Num(1))

(***************************************************************************)
(* C27: Ping of the orchestrator pings the levels in index order and       *)
(* returns the error of the first level whose Ping fails without pinging   *)
(* any later level; it returns nil iff the Ping of every level succeeds.   *)
(***************************************************************************)
C27_PingFailFast ==
    (last.op = "Ping" /\ last.tier = Multi) =>
        LET bad == {i \in Tiers : <<i, "Ping">> \in last.fail}
        IN /\ (last.err = Nil) <=> (bad = {})
           /\ bad = {} => last.seq = AllLevels
           /\ bad # {} => (/\ last.err = BackendError(Lowest(bad))
                           /\ last.seq = UpTo(Lowest(bad)))

\* the Ping of both levels would fail: the first level's error came back and
\* the second level was not pinged
C27_Witness ==
    /\ last.op = "Ping" /\ last.tier = Multi
    /\ last.fail = {<<0, "Ping">>, <<1, "Ping">>}
    /\ last.err = BackendError(0)
    /\ last.seq = <<0>>

(***************************************************************************)
(* C23: MGet of the in-process store returns a nil error and a map whose   *)
(* keys are exactly the requested keys that are present and unexpired:     *)
(* a key is in the map iff a Get of it (into a destination that takes any  *)
(* value) would succeed in the same state, and has the value Get returns.  *)
(***************************************************************************)
C23_MGetPresent ==
    (last.op = "MGet" /\ last.tier \in Tiers) =>
        /\ last.err = Nil
        /\ \A k \in Keys :
              LET g == MemGet(data[last.tier], k, "any", now) IN
              /\ (last.rmap[k] # NoVal) <=> (k \in last.keys /\ ~Gone(last.tier, k))
              /\ (last.rmap[k] # NoVal) <=> (k \in last.keys /\ g.err = Nil)
              /\ (last.rmap[k] # NoVal) => last.rmap[k] = g.val

\* both keys were requested; the first is in the map but expired and is left
\* out, the second is returned
C23_Witness ==
    /\ last.op = "MGet" /\ last.tier = 0
    /\ last.keys = {1, 2}
    /\ Lapsed(0, 1) /\ ~Gone(0, 2)
    /\ last.rmap[1] = NoVal /\ last.rmap[2] # NoVal

(***************************************************************************)
(* C24: Delete of the in-process store returns nil; on a key that is not   *)
(* in the map it leaves the map as it was; after it a Get of the key       *)
(* returns NotFound and Exists is false; a second Delete of the key leaves *)
(* the state the first one left; and no other key is affected.             *)
(***************************************************************************)
C24_DeleteIdempotent ==
    [][(last'.op = "Delete" /\ last'.tier \in Tiers) =>
          LET t == last'.tier
              k == last'.key
          IN /\ last'.err = Nil
             /\ data[t][k] = NoItem => data'[t] = data[t]
             /\ Gone(t, k) => Swept(data'[t]) = Swept(data[t])
             /\ \A ty \in DestTypes : IsNotFound(MemGet(data'[t], k, ty, now').err)
             /\ MemExists(data'[t], k, now') = [err |-> Nil, ok |-> FALSE]
             /\ MemDelete(data'[t], k) = [err |-> Nil, store |-> data'[t]]
             /\ \A j \in Keys \ {k} : data'[t][j] = data[t][j]]_vars

\* the first key was deleted while the second key was in the map, and stayed
C24_Witness ==
    /\ last.op = "Delete" /\ last.tier = 0 /\ last.key = 1
    /\ data[0][1] = NoItem
    /\ ~Gone(0, 2)

(***************************************************************************)
(* C28: Expire(k, ttl) of the in-process store with ttl > 0 on a key that  *)
(* is present and unexpired rewrites the expiration only: right after it a *)
(* Get of k returns what it returned before, TTL(k) is positive and at     *)
(* most ttl, whatever the expiration was before, and no other key changes. *)
(***************************************************************************)
C28_ExpireOnlyExpiration ==
    [][(/\ last'.op = "Expire" /\ last'.tier \in Tiers
        /\ last'.ttl > 0 /\ ~Gone(last'.tier, last'.key)) =>
          LET t == last'.tier
              k == last'.key
          IN /\ last'.err = Nil
             /\ \A ty \in DestTypes :
                   /\ MemGet(data'[t], k, ty, now') = MemGet(data[t], k, ty, now)
                   /\ MemGet(data[t], k, "any", now).err = Nil
             /\ data'[t][k].value = data[t][k].value
             /\ MemTTL(data'[t], k, now').err = Nil
             /\ 0 < MemTTL(data'[t], k, now').d
             /\ MemTTL(data'[t], k, now').d <= last'.ttl
             /\ \A j \in Keys \ {k} : data'[t][j] = data[t][j]]_vars

\* at the start of the clock, when no entry can have expired, Expire(k, 1)
\* gave a key its expiration one tick ahead
C28_Witness ==
    /\ last.op = "Expire" /\ last.tier = 0 /\ last.ttl = 1
    /\ now = StartTime
    /\ data[0][last.key] # NoItem
    /\ data[0][last.key].expiresAt = now + 1
    /\ MemTTL(data[0], last.key, now).d = 1

(***************************************************************************)
(* C25: a backend error of a level is surfaced as it is: when the Get of a *)
(* level fails with a backend error and no level yields a hit, Get of the  *)
(* orchestrator returns that error and does not report NotFound.           *)
(***************************************************************************)
C25_BackendErrorSurfaced ==
    (last.op = "Get" /\ last.tier = Multi /\ last.hit = Multi) =>
        LET errs == {LevelGet(data, i, last.key, last.dest, now, last.fail).err : i \in Tiers}
            backend == {e \in errs : e.kind = "backend"}
        IN backend # {} => (last.err \in backend /\ ~IsNotFound(last.err))

(***************************************************************************)
(* C30: Get of the orchestrator writes to a level only when it hits at a   *)
(* level i > 0 whose TTL query returns a positive duration.  A hit at      *)
(* level 0, a hit at a level that reports no expiration, a hit whose TTL   *)
(* query fails and a miss at every level leave every level as it was, and  *)
(* a backfill writes neither to level i nor to a deeper level, nor to      *)
(* another key.                                                            *)
(***************************************************************************)
C30_GetWritesOnlyBackfill ==
    [][(last'.op = "Get" /\ last'.tier = Multi) =>
          LET k == last'.key
              hits == {i \in Tiers : /\ <<i, "Get">> \notin last'.fail
                                     /\ Holds(data, i, k, last'.dest)}
              i == IF hits = {} THEN Multi ELSE Lowest(hits)
              positive == /\ i > 0
                          /\ <<i, "TTL">> \notin last'.fail
                          /\ MemTTL(data[i], k, now).d > 0
          IN /\ ~positive => data' = data
             /\ \A j \in Tiers :
                   /\ (i = Multi \/ j >= i) => data'[j] = data[j]
                   /\ \A x \in Keys \ {k} : data'[j][x] = data[j][x]]_vars

\* a hit at the second level, which reports no expiration: the first level
\* still has no entry for the key
C30_Witness ==
    /\ last.op = "Get" /\ last.tier = Multi
    /\ last.hit = 1 /\ last.err = Nil
    /\ last.ttl = 0 - 1
    /\ data[0][last.key] = NoItem

(***************************************************************************)
(* C29: the value that Get of the orchestrator backfills into the levels   *)
(* 0..i-1 is the value level i stores for the key, whatever the shape of   *)
(* the destination the caller passed: after the backfill a Get served by a *)
(* shallower level yields, for every destination, what a Get served by     *)
(* level i yields.                                                         *)
(***************************************************************************)
C29_BackfillSameValue ==
    [][(/\ last'.op = "Get" /\ last'.tier = Multi /\ last'.err = Nil
        /\ last'.hit > 0 /\ last'.ttl > 0 /\ last'.fail = {}) =>
          \A j \in 0..(last'.hit - 1) :
             /\ data'[j][last'.key].value = data'[last'.hit][last'.key].value
             /\ \A ty \in DestTypes :
                   MemGet(data'[j], last'.key, ty, now')
                      = MemGet(data'[last'.hit], last'.key, ty, now')]_vars

(***************************************************************************)
(* C26: IsNotFound(err) is true exactly when err is or wraps a             *)
(* *NotFoundError, is or wraps ErrNotFound, or has the exact message       *)
(* "redis: nil"; it is false for nil and for every other error.  Every     *)
(* miss that Get of the in-process store or Get of the orchestrator        *)
(* returns satisfies it.                                                   *)
(***************************************************************************)
C26_IsNotFound ==
    /\ last.op = "IsNotFound" =>
          (last.rbool <=>
              \/ \E k \in Keys, n \in 0..MaxWrap : last.err = WrapN(NotFoundError(k), n)
              \/ \E n \in 0..MaxWrap : last.err = WrapN(ErrNotFound, n)
              \/ last.err = RedisNil)
    /\ (last.op = "Get" /\ last.tier \in Tiers /\ Gone(last.tier, last.key))
          => IsNotFound(last.err)
    /\ (last.op = "Get" /\ last.tier = Multi /\ last.hit = Multi)
          => IsNotFound(last.err)

\* a wrapped ErrNotFound was classified as not found
C26_Witness ==
    /\ last.op = "IsNotFound"
    /\ last.err = Wrap(ErrNotFound)
    /\ last.rbool

(***************************************************************************)
(* C37: MSet of the in-process store is all-or-nothing: when it returns an *)
(* error because an item cannot be serialized, no item of the batch has    *)
(* been stored and the store is as it was.                                 *)
(***************************************************************************)
C37_MSetAllOrNothing ==
    [][(last'.op = "MSet" /\ last'.tier \in Tiers /\ last'.err # Nil)
          => data' = data]_vars

(***************************************************************************)
(* C38: TTL of the in-process store returns -2, -1 or a strictly positive  *)
(* duration in every reachable state: never 0 and no other negative value, *)
(* also at the instant the clock equals the expiration of the entry.       *)
(***************************************************************************)
C38_TTLNeverZero ==
    (last.op = "TTL" /\ last.tier \in Tiers) =>
        (last.rint = 0 - 2 \/ last.rint = 0 - 1 \/ last.rint > 0)

(***************************************************************************)
(* C40: Expire(k, ttl) of the in-process store with ttl <= 0 on a present  *)
(* key never makes the key persistent: the entry expires at the instant of *)
(* the call plus ttl, so the key is absent as soon as the clock has passed *)
(* that instant (at once for ttl < 0), and TTL(k) does not answer -1 for   *)
(* as long as that Expire is the last write to k.                          *)
(***************************************************************************)
C40_ExpireNeverPersists ==
    /\ \A k \in Keys :
          (/\ wr[0][k].op = "Expire" /\ wr[0][k].ttl <= 0
           /\ data[0][k] # NoItem) =>
             /\ data[0][k].expiresAt # ZeroTime
             /\ data[0][k].expiresAt = wr[0][k].at + wr[0][k].ttl
             /\ MemTTL(data[0], k, now).d # 0 - 1
             /\ (wr[0][k].ttl < 0 \/ now > wr[0][k].at) =>
                   /\ IsNotFound(MemGet(data[0], k, "any", now).err)
                   /\ ~MemExists(data[0], k, now).ok
                   /\ MemTTL(data[0], k, now).d = 0 - 2
    /\ (/\ last.op \in {"TTL", "Get", "Exists"} /\ last.tier = 0
        /\ wr[0][last.key].op = "Expire" /\ wr[0][last.key].ttl <= 0) =>
          /\ last.op = "TTL" => last.rint # 0 - 1
          /\ (wr[0][last.key].ttl < 0 \/ now > wr[0][last.key].at) =>
                /\ last.op = "TTL" => last.rint = 0 - 2
                /\ last.op = "Get" => IsNotFound(last.err)
                /\ last.op = "Exists" => ~last.rbool

\* Expire(k, 0) was called at the start of the clock, when every entry is
\* unexpired; the clock has moved on, the entry is still in the map, and TTL
\* answered -2
C40_Witness ==
    /\ last.op = "TTL" /\ last.tier = 0 /\ last.rint = 0 - 2
    /\ wr[0][last.key].op = "Expire" /\ wr[0][last.key].ttl = 0
    /\ wr[0][last.key].at = StartTime
    /\ now > StartTime
    /\ data[0][last.key] # NoItem

(***************************************************************************)
(* C33: counters read their own writes through the orchestrator: after a   *)
(* Set(k, n, ttl) of the orchestrator on two or more levels and an Incr,   *)
(* IncrBy, Decr or DecrBy of the orchestrator on k, a Get(k) of the        *)
(* orchestrator returns the value the counter operation returned, not n.   *)
(***************************************************************************)
C33_CounterReadYourWrites ==
    [][(/\ last.op \in {"Incr", "IncrBy", "Decr", "DecrBy"}
        /\ last.tier = Multi /\ last.err = Nil
        /\ NumTiers >= 2
        /\ \A i \in 0..(LastTier - 1) : wr[i][last.key].op = "store"
        /\ last'.op = "Get" /\ last'.tier = Multi /\ last'.key = last.key)
          => (last'.err = Nil /\ last'.rval = Int64(last.rint))]_vars

(***************************************************************************)
(* C39: Close of an in-process store may be called more than once,         *)
(* directly or through one or more orchestrators that hold the store as a  *)
(* level, and every call returns nil without crashing.                     *)
(***************************************************************************)
C39_CloseTwice ==
    (last.op = "Close") => last.err = Nil

(***************************************************************************)
(* C32: a sweep pass of the in-process store removes all the entries whose *)
(* expiration has passed at the time of the pass and only those: it leaves *)
(* every unexpired entry and every entry without expiration as it is,      *)
(* value and expiration; and while the store is open every expired entry   *)
(* is removed from the map in the end.                                     *)
(***************************************************************************)
C32_SweepExpiredOnly ==
    /\ [][(cleaner[0].c = 1 /\ cleaner'[0].c = 0) =>
             \A k \in Keys :
                data'[0][k] = IF Lapsed(0, k) THEN NoItem ELSE data[0][k]]_vars
    /\ \A k \in Keys : Lapsed(0, k) ~> (~Lapsed(0, k) \/ closed[0])

\* a pass has just removed the first key, stored with an expiration that has
\* passed, and left the second key, stored without expiration, in the map
C32_Witness ==
    /\ last.op = "sweep" /\ last.tier = 0
    /\ wr[0][1].op = "store" /\ wr[0][1].ttl > 0
    /\ now > wr[0][1].at + wr[0][1].ttl
    /\ data[0][1] = NoItem
    /\ wr[0][2].op = "store" /\ wr[0][2].ttl = 0
    /\ data[0][2] # NoItem

(***************************************************************************)
(* C36: an entry that Get of the orchestrator backfills into a shallower   *)
(* level never expires later than the entry of the hit level, also when    *)
(* the clock advances between the TTL query and the Set.  Stated for a Get *)
(* that runs alone: no other call is in flight or has returned since it    *)
(* started, so the entry of the hit level is the one it was copied from.   *)
(***************************************************************************)
C36_BackfillNotLater ==
    [][\A p \in Procs :
          LET c == loc[p] IN
          (/\ pc[p] = "fill" /\ InFlight = {p} /\ Len(done) = c.began
           /\ data'[c.n] # data[c.n]
           /\ data[c.hit][c.key] # NoItem)
          => data'[c.n][c.key].expiresAt <= data[c.hit][c.key].expiresAt]_vars

(***************************************************************************)
(* C34: once a Delete(k) of the orchestrator has returned, with every Set  *)
(* of k returned before that Delete started, no level holds k and every    *)
(* Get(k) that started after the Delete returned has returned NotFound,    *)
(* also when another Get(k) was in flight during the Delete.               *)
(***************************************************************************)
C34_DeleteStays ==
    \A i \in 1..Len(done) :
       LET d == done[i] IN
       (/\ d.op = "Delete"
        /\ \A p \in InFlight : loc[p].op # "Set"
        /\ \A j \in 1..Len(done) : done[j].op = "Set" => j <= d.began)
       => /\ \A t \in Tiers : data[t][d.key] = NoItem
          /\ \A m \in 1..Len(done) :
                (done[m].op = "Get" /\ done[m].key = d.key /\ done[m].began >= i)
                => done[m].err = NotFoundError(d.key)

(***************************************************************************)
(* C35: when the Set calls of the orchestrator on one key, concurrent or   *)
(* not, have all returned and no other call was made, every level holds    *)
(* the same value for the key.                                             *)
(***************************************************************************)
C35_SetsConverge ==
    \A k \in HotKeys :
       (/\ InFlight = {} /\ Len(done) >= 2
        /\ \A i \in 1..Len(done) :
              done[i].op = "Set" /\ done[i].key = k /\ done[i].err = Nil)
       => \A t \in Tiers :
             data[t][k] # NoItem /\ data[t][k].value = data[0][k].value

(***************************************************************************)
(* C31: the backfill is best-effort.  When Get of the orchestrator hits at *)
(* a level i > 0 and Set fails on some of the shallower levels, Get        *)
(* returns nil with the value of the hit, and every shallower level whose  *)
(* Set did not fail holds that value when Get returns.                     *)
(***************************************************************************)
C31_BackfillBestEffort ==
    [][\A p \in Procs :
          (pc[p] = "fill" /\ pc'[p] = "idle")
          => LET c == done'[Len(done')] IN
             /\ c.err = Nil
             /\ c.rval = loc[p].rval /\ c.rval # NoVal
             /\ \A j \in 0..(c.hit - 1) :
                   ~Fails(c.fail, j, "Set")
                   => /\ data'[j][c.key] # NoItem
                      /\ data'[j][c.key].value = Marshal(c.rval).doc]_vars

\* a Get that hit below two levels has returned nil: Set failed on level 0,
\* which is still empty, and level 1 holds the value
C31_Witness ==
    \E i \in 1..Len(done) :
       LET c == done[i] IN
       /\ c.op = "Get" /\ c.hit >= 2 /\ c.err = Nil
       /\ Fails(c.fail, 0, "Set") /\ ~Fails(c.fail, 1, "Set")
       /\ data[0][c.key] = NoItem
       /\ data[1][c.key] # NoItem /\ data[1][c.key].value = Marshal(c.rval).doc

====
